---- MODULE Spec2Model ----
(***************************************************************************)
(* Model of the STCM2L script decompiler                                   *)
(* (src/release/stcm2l_decompiler_v1.1.26.py, class STCM2LDecompiler).     *)
(*                                                                         *)
(* A text is a sequence of Unicode codepoints (naturals); a byte buffer is *)
(* a sequence of naturals in 0..255.  Character classes are the codepoint  *)
(* ranges the Python code tests, restricted to the blocks the model draws  *)
(* characters from: ASCII, U+2026, U+3000..U+9FFF, the full-width forms    *)
(* U+FF01..U+FF5A and U+FFFD.                                              *)
(***************************************************************************)
EXTENDS Naturals, Integers, Sequences, FiniteSets, TLC

VARIABLES
    pc,               \* which step of the procedure under analysis comes next
    data,             \* self.data: the byte buffer
    format,           \* the string returned by detect_format
    padded_entries,   \* output list of _parse_padded_format
    compact_entries,  \* output list of _parse_compact_format
    entries,          \* the candidate list (merged list / assembler input)
    i,                \* main cursor of combine_dialogue_entries
    combined,         \* the list of utterances built so far
    result,           \* self.entries: the list decompile returns
    raised            \* TRUE once an exception has escaped to the caller

vars == <<pc, data, format, padded_entries, compact_entries, entries, i,
          combined, result, raised>>

(***************************************************************************)
(* Characters                                                              *)
(***************************************************************************)
InRange(c, lo, hi) == c >= lo /\ c <= hi

\* '\u3000' <= c <= '\u9fff'  (is_choice_candidate, should_combine_entries,
\* combine_dialogue_entries)
IsJapanese(c) == InRange(c, 12288, 40959)

\* 0x3040 <= ord(c) <= 0x9FFF  (_is_valid_text)
IsJapaneseStrict(c) == InRange(c, 12352, 40959)

IsAsciiLower(c) == InRange(c, 97, 122)
IsAsciiUpper(c) == InRange(c, 65, 90)
IsAsciiLetter(c) == IsAsciiLower(c) \/ IsAsciiUpper(c)
IsAsciiDigit(c) == InRange(c, 48, 57)

\* str.isalpha() on the model's blocks: ASCII letters, kana, CJK ideographs,
\* full-width letters.  Kana and ideographs are letters for Python.
IsAlpha(c) ==
    \/ IsAsciiLetter(c)
    \/ InRange(c, 12293, 12294) \/ InRange(c, 12337, 12341)
    \/ InRange(c, 12347, 12348) \/ InRange(c, 12353, 12438)
    \/ InRange(c, 12445, 12447) \/ InRange(c, 12449, 12538)
    \/ InRange(c, 12540, 12543) \/ InRange(c, 12549, 12591)
    \/ InRange(c, 12593, 12686) \/ InRange(c, 12704, 12735)
    \/ InRange(c, 12784, 12799) \/ InRange(c, 13312, 19903)
    \/ InRange(c, 19968, 40959)
    \/ InRange(c, 65313, 65338) \/ InRange(c, 65345, 65370)

\* str.isupper() of one character
IsUpper(c) == IsAsciiUpper(c) \/ InRange(c, 65313, 65338)

\* \d of a str pattern
IsDigit(c) == IsAsciiDigit(c) \/ InRange(c, 65296, 65305)

\* \w of a str pattern (used for \b)
IsWordChar(c) ==
    \/ IsAlpha(c) \/ IsDigit(c) \/ c = 95
    \/ c = 12295 \/ InRange(c, 12321, 12329) \/ InRange(c, 12344, 12346)

\* characters str.strip(), str.rstrip() and str.split() treat as whitespace
IsSpace(c) == InRange(c, 9, 13) \/ InRange(c, 28, 32) \/ c = 12288

\* str.lower() of one character
LowerChar(c) ==
    IF IsAsciiUpper(c) \/ InRange(c, 65313, 65338) THEN c + 32 ELSE c

(***************************************************************************)
(* Strings                                                                 *)
(***************************************************************************)
Lower(t) == [k \in DOMAIN t |-> LowerChar(t[k])]

StartsWith(t, p) == Len(t) >= Len(p) /\ SubSeq(t, 1, Len(p)) = p

EndsWith(t, p) ==
    Len(t) >= Len(p) /\ SubSeq(t, Len(t) - Len(p) + 1, Len(t)) = p

\* re.match / re.search of a literal under re.IGNORECASE
StartsWithCI(t, p) == StartsWith(Lower(t), p)

\* p occurs in t as a substring starting at position k
OccursAt(t, p, k) ==
    k >= 1 /\ k + Len(p) - 1 <= Len(t) /\ SubSeq(t, k, k + Len(p) - 1) = p

Contains(t, p) == \E k \in 1..Len(t) : OccursAt(t, p, k)

\* str.count(ch) for a single character
Count(t, c) == Cardinality({k \in DOMAIN t : t[k] = c})

RECURSIVE LStrip(_)
LStrip(t) == IF t # <<>> /\ IsSpace(Head(t)) THEN LStrip(Tail(t)) ELSE t

RECURSIVE RStrip(_)
RStrip(t) ==
    IF t # <<>> /\ IsSpace(t[Len(t)]) THEN RStrip(SubSeq(t, 1, Len(t) - 1))
    ELSE t

\* str.strip()
Strip(t) == RStrip(LStrip(t))

RECURSIVE StripNulLeft(_)
StripNulLeft(t) ==
    IF t # <<>> /\ Head(t) = 0 THEN StripNulLeft(Tail(t)) ELSE t

RECURSIVE StripNulRight(_)
StripNulRight(t) ==
    IF t # <<>> /\ t[Len(t)] = 0 THEN StripNulRight(SubSeq(t, 1, Len(t) - 1))
    ELSE t

\* str.strip('\x00'); StripNulRight alone is bytes.rstrip(b'\x00')
StripNul(t) == StripNulRight(StripNulLeft(t))

\* str.split(): the maximal runs of non-whitespace characters
RECURSIVE SplitFrom(_, _, _)
SplitFrom(t, k, word) ==
    IF k > Len(t) THEN (IF word = <<>> THEN <<>> ELSE <<word>>)
    ELSE IF IsSpace(t[k])
         THEN (IF word = <<>> THEN <<>> ELSE <<word>>) \o SplitFrom(t, k + 1, <<>>)
         ELSE SplitFrom(t, k + 1, Append(word, t[k]))

Split(t) == SplitFrom(t, 1, <<>>)

\* any('\u3000' <= c <= '\u9fff' for c in text)
HasJapanese(t) == \E k \in DOMAIN t : IsJapanese(t[k])

\* sum(1 for c in text if c.isalpha())
AlphaCount(t) == Cardinality({k \in DOMAIN t : IsAlpha(t[k])})

\* sum(1 for c in text if c.isalpha() and ord(c) < 128)
AsciiAlphaCount(t) == Cardinality({k \in DOMAIN t : IsAsciiLetter(t[k])})

\* the part join of combine_dialogue_entries: a single space between parts
\* unless the text so far is empty or ends in a space or newline
JoinPart(acc, part) ==
    IF acc # <<>> /\ acc[Len(acc)] \notin {32, 10}
    THEN acc \o <<32>> \o part
    ELSE acc \o part

(***************************************************************************)
(* Rosters and pattern literals                                            *)
(***************************************************************************)
SPEAKER_NAMES ==
    { <<112, 101, 97, 114, 108>>,                       \* pearl
      <<114, 105, 99, 104, 105, 101>>,                  \* richie
      <<110, 101, 115, 115, 111>>,                      \* nesso
      <<122, 97, 114, 97>>,                             \* zara
      <<101, 100, 103, 97, 114>>,                       \* edgar
      <<101, 108, 122, 97>>,                            \* elza
      <<114, 97, 116, 104>>,                            \* rath
      <<103, 117, 105, 108, 108, 97, 110>>,             \* guillan
      <<97, 114, 108, 101, 115>>,                       \* arles
      <<104, 101, 110, 114, 105, 101, 116, 116, 97>>,   \* henrietta
      <<12497, 12540, 12523>>,                          \* U+30D1 U+30FC U+30EB
      <<12522, 12483, 12481, 12540>>,                   \* U+30EA U+30C3 U+30C1 U+30FC
      <<12493, 12483, 12477>>,                          \* U+30CD U+30C3 U+30BD
      <<12470, 12521>>,                                 \* U+30B6 U+30E9
      <<12456, 12489, 12460, 12540>>,                   \* U+30A8 U+30C9 U+30AC U+30FC
      <<12456, 12523, 12470>>,                          \* U+30A8 U+30EB U+30B6
      <<12521, 12473>>,                                 \* U+30E9 U+30B9
      <<12462, 12521, 12531>>,                          \* U+30AE U+30E9 U+30F3
      <<12450, 12523, 12523>>,                          \* U+30A2 U+30EB U+30EB
      <<12504, 12531, 12522, 12456, 12483, 12479>> }    \* U+30D8 U+30F3 U+30EA U+30A8 U+30C3 U+30BF

ENGLISH_CHOICE_WORDS ==
    { <<121, 101, 115>>,                       \* yes
      <<110, 111>>,                            \* no
      <<111, 107>>,                            \* ok
      <<99, 97, 110, 99, 101, 108>>,           \* cancel
      <<97, 99, 99, 101, 112, 116>>,           \* accept
      <<100, 101, 99, 108, 105, 110, 101>>,    \* decline
      <<99, 108, 111, 115, 101>> }             \* close

\* prefixes of the character-ID pattern
\* ^(edga|her|zara|ness|pear|rich|rath|elza|haniy|zk)[0-9]+[a-z]*
CharacterIdPrefixes ==
    { <<101, 100, 103, 97>>, <<104, 101, 114>>, <<122, 97, 114, 97>>,
      <<110, 101, 115, 115>>, <<112, 101, 97, 114>>, <<114, 105, 99, 104>>,
      <<114, 97, 116, 104>>, <<101, 108, 122, 97>>,
      <<104, 97, 110, 105, 121>>, <<122, 107>> }

\* the literal words of BYTECODE_PATTERNS
BytecodeWords ==
    [ switch |-> <<115, 119, 105, 116, 99, 104>>,
      case |-> <<99, 97, 115, 101>>,
      default |-> <<100, 101, 102, 97, 117, 108, 116>>,
      bg |-> <<98, 103>>,
      suma |-> <<115, 117, 109, 97>>,
      scene_play |-> <<115, 99, 101, 110, 101, 95, 112, 108, 97, 121>>,
      flg_memory |-> <<102, 108, 103, 95, 109, 101, 109, 111, 114, 121>> ]

\* string literals of the classifier and the assembler: '#Name[', '"--',
\* '...', U+3002 three times, "I'm", 'I ', ' [', ' / '
Markers ==
    [ NameOpen |-> <<35, 78, 97, 109, 101, 91>>,
      BreakMarker |-> <<34, 45, 45>>,
      Ellipsis |-> <<46, 46, 46>>,
      JpEllipsis |-> <<12290, 12290, 12290>>,
      Im |-> <<73, 39, 109>>,
      I_space |-> <<73, 32>>,
      SpaceBracket |-> <<32, 91>>,
      ChoiceSeparator |-> <<32, 47, 32>> ]

(***************************************************************************)
(* TextClassifier                                                          *)
(***************************************************************************)
\* one of the regular expressions of BYTECODE_PATTERNS matches at the start
\* of t (re.match, re.IGNORECASE)
MatchesBytecodePattern(t) ==
    LET l == Lower(t)
        n == Len(l)
    IN  \/ StartsWith(l, BytecodeWords.switch)
        \/ StartsWith(l, BytecodeWords.case)
        \/ StartsWith(l, BytecodeWords.default)
        \* bg[0-9a-f]+
        \/ /\ StartsWith(l, BytecodeWords.bg)
           /\ n >= 3
           /\ (IsAsciiDigit(l[3]) \/ InRange(l[3], 97, 102))
        \* @[a-zA-Z0-9_]+   and   ^@[a-zA-Z0-9_]+$
        \/ /\ n >= 2
           /\ l[1] = 64
           /\ (IsAsciiLetter(l[2]) \/ IsAsciiDigit(l[2]) \/ l[2] = 95)
        \* ^(edga|her|...|zk)[0-9]+[a-z]*
        \/ \E p \in CharacterIdPrefixes :
              /\ StartsWith(l, p)
              /\ n > Len(p)
              /\ IsAsciiDigit(l[Len(p) + 1])
        \* suma$  scene_play$  flg_memory$  ($ also matches before a final \n)
        \/ \E p \in {BytecodeWords.suma, BytecodeWords.scene_play, BytecodeWords.flg_memory} :
              l = p \/ l = Append(p, 10)

\* a word of the density heuristic that "looks like bytecode"
IsCodeShapedWord(w) ==
    \/ w[1] = 64                                           \* startswith('@')
    \/ (Len(w) <= 3 /\ \A k \in DOMAIN w : IsAsciiLower(w[k]))   \* ^[a-z]{1,3}$
    \/ \E a \in 1..(Len(w) - 1) :                          \* ^[a-z]+\d+$
          /\ \A k \in 1..a : IsAsciiLower(w[k])
          /\ \A k \in (a + 1)..Len(w) : IsDigit(w[k])
    \/ Len(w) < 3

\* the density heuristic needs more than DensityMinWords words and more than
\* DensityPercent percent of them code-shaped
DensityMinWords == 5
DensityPercent == 85

is_bytecode(text) ==
    LET t == Strip(text)
        words == Split(t)
        bytecode_count == Cardinality({k \in DOMAIN words : IsCodeShapedWord(words[k])})
    IN  IF Lower(t) \in ENGLISH_CHOICE_WORDS THEN FALSE
        ELSE IF MatchesBytecodePattern(t) THEN TRUE
        ELSE /\ Len(words) > DensityMinWords
             /\ bytecode_count * 100 > DensityPercent * Len(words)

\* ^#Name\[[0-9]+\]$ on the stripped text
is_name_indicator(text) ==
    LET t == Strip(text)
        n == Len(t)
    IN  /\ StartsWith(t, Markers.NameOpen)
        /\ n >= Len(Markers.NameOpen) + 2
        /\ t[n] = 93
        /\ \A k \in (Len(Markers.NameOpen) + 1)..(n - 1) : IsAsciiDigit(t[k])

is_speaker_name(text) == Lower(StripNul(Strip(text))) \in SPEAKER_NAMES

\* re.search(r'[...]', prev_text): the characters should_combine_entries
\* takes as terminal punctuation
\* U+3002 U+FF01 U+FF1F . ! ? " U+300F U+FF09 ] U+2026
CombineTerminalChars == {12290, 65281, 65311, 46, 33, 63, 34, 12303, 65289, 93, 8230}

\* ^[a-z(...]: lowercase letter, '(', U+300C, U+300E, U+FF08
CombineOpeners == {40, 12300, 12302, 65288}

\* len(prev_text) > MinPrevLen for the "unfinished sentence" rule
MinPrevLen == 3
\* sum(... isalpha()) > LatinThreshold makes a text "English"
LatinThreshold == 2

HasEnglish(t) == AlphaCount(t) > LatinThreshold

\* the continuation rules without the test of the later text for bytecode
\* and name markers
should_combine_entries_any_later(prev_text, curr_text) ==
    IF Contains(prev_text, Markers.SpaceBracket)
       /\ EndsWith(RStrip(prev_text), <<93>>) THEN FALSE
    ELSE IF HasJapanese(curr_text) /\ HasEnglish(curr_text) THEN FALSE
    ELSE IF HasJapanese(prev_text) /\ HasEnglish(curr_text) THEN FALSE
    ELSE IF HasEnglish(prev_text) /\ HasJapanese(curr_text) THEN FALSE
    ELSE \/ Len(prev_text) > MinPrevLen
            /\ ~\E k \in DOMAIN prev_text : prev_text[k] \in CombineTerminalChars
         \/ curr_text # <<>>
            /\ (IsAsciiLower(curr_text[1]) \/ curr_text[1] \in CombineOpeners)
         \/ Count(prev_text, 40) + Count(prev_text, 65288)
                > Count(prev_text, 41) + Count(prev_text, 65289)

\* lines 138-191
should_combine_entries(prev_text, curr_text) ==
    LET prev_has_japanese == HasJapanese(prev_text)
        prev_has_english == HasEnglish(prev_text)
        curr_has_japanese == HasJapanese(curr_text)
        curr_has_english == HasEnglish(curr_text)
        open_parens == Count(prev_text, 40) + Count(prev_text, 65288)
        close_parens == Count(prev_text, 41) + Count(prev_text, 65289)
    IN  IF is_bytecode(curr_text) \/ is_name_indicator(curr_text) THEN FALSE
        ELSE IF Contains(prev_text, Markers.SpaceBracket)
                /\ EndsWith(RStrip(prev_text), <<93>>) THEN FALSE
        ELSE IF curr_has_japanese /\ curr_has_english THEN FALSE
        ELSE IF prev_has_japanese /\ curr_has_english /\ ~curr_has_japanese THEN FALSE
        ELSE IF prev_has_english /\ curr_has_japanese /\ ~curr_has_english THEN FALSE
        ELSE IF Len(prev_text) > MinPrevLen
                /\ ~\E k \in DOMAIN prev_text : prev_text[k] \in CombineTerminalChars
             THEN TRUE
        ELSE IF curr_text # <<>>
                /\ (IsAsciiLower(curr_text[1]) \/ curr_text[1] \in CombineOpeners)
             THEN TRUE
        ELSE open_parens > close_parens

\* choices are MinChoiceLen..MaxChoiceLen characters long
MinChoiceLen == 2
MaxChoiceLen == 10

\* the five vowels of ^[...]+$ : U+3042 U+3044 U+3046 U+3048 U+304A
Vowels == {12354, 12356, 12358, 12360, 12362}

\* a candidate test that takes a UI word under every tag
is_choice_candidate_any_tag(entry) ==
    LET text == Strip(entry.text)
        n == Len(text)
    IN  IF n < MinChoiceLen \/ n > MaxChoiceLen THEN FALSE
        ELSE IF ~HasJapanese(text) THEN Lower(text) \in ENGLISH_CHOICE_WORDS
        ELSE IF is_speaker_name(text) THEN FALSE
        ELSE IF is_bytecode(text) THEN FALSE
        ELSE IF text[n] = 65311 THEN FALSE
        ELSE IF Cardinality({text[k] : k \in DOMAIN text}) = 1
                /\ text[1] \in Vowels THEN FALSE
        ELSE IF \A k \in DOMAIN text : text[k] \in {12290, 65281, 65311} THEN FALSE
        ELSE text[n] \notin {12290, 65281, 12303, 65289, 12301}

\* an entry is a record with fields index, type, text (and more); only text
\* and type are read here
is_choice_candidate(entry) ==
    LET text == Strip(entry.text)
        n == Len(text)
    IN  IF n < MinChoiceLen \/ n > MaxChoiceLen THEN FALSE
        ELSE IF entry.type = 2 /\ ~HasJapanese(text)
             THEN Lower(text) \in ENGLISH_CHOICE_WORDS
        ELSE IF ~HasJapanese(text) THEN FALSE
        ELSE IF is_speaker_name(text) THEN FALSE
        ELSE IF is_bytecode(text) THEN FALSE
        ELSE IF text[n] = 65311 THEN FALSE          \* endswith U+FF1F
        ELSE IF Cardinality({text[k] : k \in DOMAIN text}) = 1
                /\ text[1] \in Vowels THEN FALSE
        ELSE IF \A k \in DOMAIN text : text[k] \in {12290, 65281, 65311} THEN FALSE
        \* [...]$ : U+3002 U+FF01 U+300F U+FF09 U+300D
        ELSE text[n] \notin {12290, 65281, 12303, 65289, 12301}

(***************************************************************************)
(* The admission filter _is_valid_text                                     *)
(***************************************************************************)
\* \b before position k (t[k] is a word character)
WordStartsAt(t, k) == k = 1 \/ ~IsWordChar(t[k - 1])

\* \b after position k (t[k] is a word character)
WordEndsAt(t, k) == k = Len(t) \/ ~IsWordChar(t[k + 1])

\* \b<literal> somewhere in l
HasWordPrefix(l, p) == \E k \in 1..Len(l) : OccursAt(l, p, k) /\ WordStartsAt(l, k)

\* \b<literal>\b somewhere in l
HasWord(l, p) ==
    \E k \in 1..Len(l) :
        OccursAt(l, p, k) /\ WordStartsAt(l, k) /\ WordEndsAt(l, k + Len(p) - 1)

\* \b<literal>\d+ somewhere in l
HasWordPrefixDigit(l, p) ==
    \E k \in 1..Len(l) :
        /\ OccursAt(l, p, k) /\ WordStartsAt(l, k)
        /\ k + Len(p) <= Len(l) /\ IsDigit(l[k + Len(p)])

AllAsciiLower(l, a, b) == \A k \in a..b : IsAsciiLower(l[k])

\* the literal parts of the list bytecode_patterns of _is_valid_text,
\* lower-cased (the search ignores case)
IdentifierWords ==
    [ release |-> <<114, 101, 108, 101, 97, 115, 101, 95>>,
      rute_count |-> <<114, 117, 116, 101, 95, 99, 111, 117, 110, 116, 95>>,
      fav |-> <<102, 97, 118>>,
      lh_sel |-> <<108, 104, 95, 115, 101, 108, 95>>,
      sure |-> <<115, 117, 114, 101>>,
      memory |-> <<109, 101, 109, 111, 114, 121, 95>>,
      collection_link |-> <<99, 111, 108, 108, 101, 99, 116, 105, 111, 110, 95, 108, 105, 110, 107>>,
      export_data |-> <<101, 120, 112, 111, 114, 116, 95, 100, 97, 116, 97>>,
      rathl |-> <<114, 97, 116, 104, 108>>,
      elzal |-> <<101, 108, 122, 97, 108>>,
      zara0 |-> <<122, 97, 114, 97, 48>>,
      ness0 |-> <<110, 101, 115, 115, 48>>,
      her |-> <<104, 101, 114>>,
      zk |-> <<122, 107>>,
      bad_end |-> <<95, 98, 97, 100, 95, 101, 110, 100>>,
      good_end |-> <<95, 103, 111, 111, 100, 95, 101, 110, 100>>,
      trueend |-> <<116, 114, 117, 101, 101, 110, 100>>,
      ef |-> <<101, 102, 95>>,
      select |-> <<115, 101, 108, 101, 99, 116>> ]

\* \b[A-Z][a-z]+_(bad|good)_end\b
MatchesEndingName(l) ==
    \E k \in 1..Len(l) : \E m \in (k + 1)..Len(l) :
        /\ WordStartsAt(l, k)
        /\ AllAsciiLower(l, k, m)
        /\ \E p \in {IdentifierWords.bad_end, IdentifierWords.good_end} :
              OccursAt(l, p, m + 1) /\ WordEndsAt(l, m + Len(p))

\* ^[A-Z][a-z]+_[A-Za-z_]+$
MatchesCodeName(l) ==
    \E m \in 2..(Len(l) - 2) :
        /\ AllAsciiLower(l, 1, m)
        /\ l[m + 1] = 95
        /\ \A k \in (m + 2)..Len(l) : IsAsciiLower(l[k]) \/ l[k] = 95

\* \bef_[a-z0-9_]+\b
MatchesEffectCode(l) ==
    \E k \in 1..Len(l) : \E m \in (k + 3)..Len(l) :
        /\ OccursAt(l, IdentifierWords.ef, k) /\ WordStartsAt(l, k)
        /\ \A q \in (k + 3)..m : IsAsciiLower(l[q]) \/ IsAsciiDigit(l[q]) \/ l[q] = 95
        /\ WordEndsAt(l, m)

\* ^[a-z]+\d+[a-z]*_[a-z]+$
MatchesCharacterVariable(l) ==
    \E a \in 1..Len(l) : \E b \in (a + 1)..Len(l) : \E c \in b..(Len(l) - 2) :
        /\ AllAsciiLower(l, 1, a)
        /\ \A k \in (a + 1)..b : IsDigit(l[k])
        /\ AllAsciiLower(l, b + 1, c)
        /\ l[c + 1] = 95
        /\ AllAsciiLower(l, c + 2, Len(l))

\* ^[a-z]+\d+$
MatchesLettersDigits(l) ==
    \E a \in 1..(Len(l) - 1) :
        AllAsciiLower(l, 1, a) /\ \A k \in (a + 1)..Len(l) : IsDigit(l[k])

\* ^[a-z]{3,5}$
MatchesShortIdentifier(l) == Len(l) \in 3..5 /\ AllAsciiLower(l, 1, Len(l))

\* some pattern of the list bytecode_patterns is found in the stripped text
\* (re.search, re.IGNORECASE); l is the lower-cased stripped text
MatchesIdentifierPattern(l) ==
    \/ \E p \in {IdentifierWords.release, IdentifierWords.rute_count, IdentifierWords.lh_sel, IdentifierWords.memory, IdentifierWords.collection_link,
                 IdentifierWords.export_data, BytecodeWords.switch, BytecodeWords.scene_play, IdentifierWords.rathl, IdentifierWords.elzal,
                 IdentifierWords.zara0, IdentifierWords.ness0} : HasWordPrefix(l, p)
    \/ \E k \in 1..Len(l) :                                   \* \bFav[A-Z]
          /\ OccursAt(l, IdentifierWords.fav, k) /\ WordStartsAt(l, k)
          /\ k + 3 <= Len(l) /\ IsAsciiLower(l[k + 3])
    \/ \E p \in {IdentifierWords.sure, IdentifierWords.her, IdentifierWords.zk, BytecodeWords.bg} : HasWordPrefixDigit(l, p)
    \/ \E p \in {BytecodeWords.suma, IdentifierWords.trueend, IdentifierWords.select, IdentifierWords.export_data} : HasWord(l, p)
    \/ MatchesEndingName(l)
    \/ MatchesCodeName(l)
    \/ MatchesEffectCode(l)
    \/ MatchesCharacterVariable(l)
    \/ MatchesLettersDigits(l)
    \/ MatchesShortIdentifier(l)

\* the decode-failure marker U+FFFD
REPLACEMENT_CHAR == 65533

IsControlChar(c) == c < 32 /\ c \notin {10, 13, 9}

HasJapaneseStrict(t) == \E k \in DOMAIN t : IsJapaneseStrict(t[k])

\* more than 1/ControlDivisor of the characters are control characters
ControlDivisor == 4
\* a text starting with '@' shorter than ShortAtLen is rejected
ShortAtLen == 5
\* longer than AtMinLen with more than 1/AtDivisor '@' characters is rejected
AtMinLen == 10
AtDivisor == 10
\* at least MinLatinLetters alphabetic characters (or any Japanese) are needed
MinLatinLetters == 2
\* at least MinValidLen characters after stripping
MinValidLen == 2

\* lines 1309-1368: the checks that follow the replacement-character check
ValidTextTail(text) ==
    LET text_stripped == Strip(text)
        control_count == Cardinality({k \in DOMAIN text : IsControlChar(text[k])})
    IN  IF control_count * ControlDivisor > Len(text) THEN FALSE
        ELSE IF text[1] = 64 /\ Len(text) < ShortAtLen THEN FALSE
        ELSE IF Len(text) > AtMinLen /\ Count(text, 64) * AtDivisor > Len(text) THEN FALSE
        ELSE IF is_speaker_name(text_stripped) THEN TRUE
        ELSE IF Lower(text_stripped) \in ENGLISH_CHOICE_WORDS THEN TRUE
        ELSE IF MatchesIdentifierPattern(Lower(text_stripped))
                /\ ~HasJapaneseStrict(text) THEN FALSE
        ELSE HasJapaneseStrict(text) \/ AlphaCount(text) >= MinLatinLetters

\* the filter with the check of line 1306 left out
_is_valid_text_unmarked(text) ==
    IF text = <<>> \/ Len(Strip(text)) < MinValidLen THEN FALSE
    ELSE ValidTextTail(text)

_is_valid_text(text) ==
    IF text = <<>> \/ Len(Strip(text)) < MinValidLen THEN FALSE
    ELSE IF \E k \in DOMAIN text : text[k] = REPLACEMENT_CHAR THEN FALSE
    ELSE ValidTextTail(text)

(***************************************************************************)
(* Records                                                                 *)
(*                                                                         *)
(* A dict of the Python code is a record with all the keys the pipeline    *)
(* reads; a key the code leaves out holds its .get() default: speaker      *)
(* <<>>, is_choice FALSE, choice_count 0, choice_options <<>>.             *)
(***************************************************************************)
Utterance(index, text, speaker, type) ==
    [index |-> index, text |-> text, speaker |-> speaker, type |-> type,
     is_choice |-> FALSE, choice_count |-> 0, choice_options |-> <<>>]

\* a candidate entry as the assembler reads it (index, type, text)
Fragment(type, text, index) == Utterance(index, text, <<>>, type)

(***************************************************************************)
(* ChoiceGrouper: group_related_choices                                    *)
(***************************************************************************)
\* candidates join the forming group while next_index - current_index <= 50
ChoiceWindow == 50
\* a group becomes one Choice record when it has MinGroup..MaxGroup options
MinGroup == 2
MaxGroup == 5

\* ' / '.join(choice_texts)
RECURSIVE JoinChoices(_)
JoinChoices(texts) ==
    IF texts = <<>> THEN <<>>
    ELSE IF Len(texts) = 1 THEN texts[1]
    ELSE texts[1] \o Markers.ChoiceSeparator \o JoinChoices(Tail(texts))

\* list.sort(key=index): a stable insertion sort
RECURSIVE InsertByIndex(_, _)
InsertByIndex(sorted, e) ==
    IF sorted = <<>> THEN <<e>>
    ELSE IF sorted[Len(sorted)].index <= e.index THEN Append(sorted, e)
    ELSE Append(InsertByIndex(SubSeq(sorted, 1, Len(sorted) - 1), e),
                sorted[Len(sorted)])

\* a list left in the order it was put together
KeepOrder(es) == es

RECURSIVE SortByIndex(_)
SortByIndex(es) ==
    IF es = <<>> THEN <<>>
    ELSE InsertByIndex(SortByIndex(SubSeq(es, 1, Len(es) - 1)), es[Len(es)])

\* positions (in list order) of the entries that are choice candidates
CandidatePositions(es) ==
    SelectSeq([k \in 1..Len(es) |-> k], LAMBDA k : is_choice_candidate(es[k]))

\* an inner loop that measures the window from the candidate before
RECURSIVE GroupEndChained(_, _, _, _)
GroupEndChained(es, cp, a, j) ==
    IF j <= Len(cp) /\ es[cp[j]].index - es[cp[j - 1]].index <= ChoiceWindow
    THEN GroupEndChained(es, cp, a, j + 1)
    ELSE j

\* the inner while loop: first j > a whose candidate lies outside the window
\* of candidate a (or Len + 1)
RECURSIVE GroupEnd(_, _, _, _)
GroupEnd(es, cp, a, j) ==
    IF j <= Len(cp) /\ es[cp[j]].index - es[cp[a]].index <= ChoiceWindow
    THEN GroupEnd(es, cp, a, j + 1)
    ELSE j

\* an outer loop that starts the next group at the candidate after a
RECURSIVE ChoiceGroupsOverlapping(_, _, _)
ChoiceGroupsOverlapping(es, cp, a) ==
    IF a > Len(cp) THEN <<>>
    ELSE <<SubSeq(cp, a, GroupEnd(es, cp, a, a + 1) - 1)>>
         \o ChoiceGroupsOverlapping(es, cp, a + 1)

\* the outer while loop: the groups formed, each a sequence of positions
RECURSIVE ChoiceGroups(_, _, _)
ChoiceGroups(es, cp, a) ==
    IF a > Len(cp) THEN <<>>
    ELSE LET j == GroupEnd(es, cp, a, a + 1)
         IN  <<SubSeq(cp, a, j - 1)>> \o ChoiceGroups(es, cp, j)

\* a grouper that leaves a cluster of MaxGroup options unconverted
IsConvertedBelowMax(group) == Len(group) >= MinGroup /\ Len(group) < MaxGroup

IsConverted(group) == Len(group) >= MinGroup /\ Len(group) <= MaxGroup

\* a grouper that gives the combined entry the index of the last member
LastMemberIndex(es, group) == es[group[Len(group)]].index

\* the index given to the combined entry: that of the group's first member
CombinedIndex(es, group) == es[group[1]].index

\* combined_entry for one converted group
CombinedChoice(es, group) ==
    LET choice_texts == [k \in 1..Len(group) |-> Strip(es[group[k]].text)]
    IN  [index |-> CombinedIndex(es, group),
         text |-> JoinChoices(choice_texts),
         speaker |-> <<>>,
         type |-> 2,
         is_choice |-> TRUE,
         choice_count |-> Len(choice_texts),
         choice_options |-> choice_texts]

group_related_choices(es) ==
    LET cp == CandidatePositions(es)
        groups == ChoiceGroups(es, cp, 1)
        converted == SelectSeq(groups, IsConverted)
        removed == UNION {{converted[g][k] : k \in 1..Len(converted[g])} : g \in 1..Len(converted)}
        kept == SelectSeq([k \in 1..Len(es) |-> k], LAMBDA k : k \notin removed)
        grouped == [g \in 1..Len(converted) |-> CombinedChoice(es, converted[g])]
    IN  IF cp = <<>> THEN es
        ELSE SortByIndex([k \in 1..Len(kept) |-> es[kept[k]]] \o grouped)

(***************************************************************************)
(* DialogueAssembler: combine_dialogue_entries                             *)
(*                                                                         *)
(* Cursors are 1-based: cursor k of the model is Python's i = k - 1.       *)
(***************************************************************************)
\* the run tags with the narration tag 0x12 among them
SpeakerRunTypesWithNarration == {1} \cup (3..6) \cup (8..18)

\* tags a speaker run consumes (line 372)
SpeakerRunTypes == {1, 3, 4, 5, 6, 8, 9, 10, 11, 12, 13, 14, 15, 16, 17}
\* tags the quote lookahead always takes, and those it takes conditionally
QuoteAlwaysTypes == {12, 13}
QuoteCheckTypes == {4, 6, 3, 15}
\* tags a type 0x07 entry absorbs (line 630)
Type07CombineTypes == {3, 4, 5, 6, 7, 8, 9, 10, 11, 12, 13, 14}
\* tags that end the backward search for a speaker of a type 0x07 entry
Type07StopTypes == {4, 5, 6, 7, 13, 14, 18}
\* the dialogue branch (line 679); 0x07 never reaches it
DialogueTypes == {4, 5, 6, 7, 8, 9, 10, 11, 12, 13, 14, 15, 16, 17}
\* tags the dialogue look-ahead absorbs (line 730)
DialogueCombineTypes == {1, 3, 4, 5, 6, 7, 8, 9, 10, 11, 12, 13, 14, 15, 16, 17}
\* tags whose text is not skipped as bytecode in the dialogue look-ahead
NoBytecodeSkipTypes == {3, 10}

\* endswith(('.', '!', '?', U+3002, U+FF01, U+FF0F)) as written on lines 392
\* and 474
TerminalMarks == {46, 33, 63, 12290, 65281, 65295}

\* ends in a terminal mark but not in an ellipsis, trailing whitespace removed
EndsWithPunct(text) ==
    LET stripped_text == RStrip(text)
    IN  /\ stripped_text # <<>>
        /\ stripped_text[Len(stripped_text)] \in TerminalMarks
        /\ ~EndsWith(stripped_text, Markers.Ellipsis)
        /\ ~EndsWith(stripped_text, Markers.JpEllipsis)

\* ' '.join(dialogue_parts)
RECURSIVE JoinSpace(_)
JoinSpace(parts) ==
    IF parts = <<>> THEN <<>>
    ELSE IF Len(parts) = 1 THEN parts[1]
    ELSE parts[1] \o <<32>> \o JoinSpace(Tail(parts))

\* an assembler that takes no quote for unclosed
NeverUnclosed(parts) == FALSE

\* ' '.join(dialogue_parts).count('"') % 2 == 1
HasUnclosedQuote(parts) == Count(JoinSpace(parts), 34) % 2 = 1

\* the text of a finished speaker run (lines 495-499)
RECURSIVE JoinParts(_, _)
JoinParts(acc, parts) ==
    IF parts = <<>> THEN acc
    ELSE JoinParts(JoinPart(acc, Head(parts)), Tail(parts))

\* the multi-entry lookahead for quote closure (lines 404-437); returns the
\* cursor and the parts when the loop is left
RECURSIVE QuoteLookahead(_, _, _)
QuoteLookahead(es, k, parts) ==
    IF k > Len(es) THEN [i |-> k, parts |-> parts]
    ELSE LET next_type == es[k].type
             next_text_check == es[k].text
             taken == Append(parts, next_text_check)
         IN  IF next_type \in QuoteAlwaysTypes
             THEN QuoteLookahead(es, k + 1, taken)
             ELSE IF next_type \in QuoteCheckTypes
             THEN IF Count(next_text_check, 34) > 0
                  THEN IF ~HasUnclosedQuote(taken)
                       THEN [i |-> k + 1, parts |-> taken]
                       ELSE QuoteLookahead(es, k + 1, taken)
                  ELSE IF next_text_check # <<>> /\ ~IsUpper(next_text_check[1])
                  THEN QuoteLookahead(es, k + 1, taken)
                  ELSE [i |-> k, parts |-> parts]
             ELSE [i |-> k, parts |-> parts]

\* would appending next_text to the run switch between Japanese and English
\* (lines 455-463)
RunSwitchesLanguage(parts, next_text) ==
    LET combined_so_far == JoinSpace(parts)
        next_has_japanese == HasJapanese(next_text)
        next_has_english == HasEnglish(next_text)
    IN  /\ parts # <<>>
        /\ \/ HasJapanese(combined_so_far) /\ next_has_english /\ ~next_has_japanese
           \/ HasEnglish(combined_so_far) /\ next_has_japanese /\ ~next_has_english

\* the previous part ended a sentence and next_text starts a new one
\* (lines 470-487)
StartsNewSentence(parts, next_text) ==
    /\ parts # <<>>
    /\ next_text # <<>>
    /\ EndsWithPunct(parts[Len(parts)])
    /\ ~HasUnclosedQuote(parts)
    /\ IsUpper(next_text[1])
    /\ ~StartsWith(next_text, Markers.Im)
    /\ ~StartsWith(next_text, Markers.I_space)

\* the inner while loop of a speaker run (lines 358-490), entered with the
\* cursor k on the entry after the speaker
RECURSIVE SpeakerRun(_, _, _)
SpeakerRun(es, k, parts) ==
    IF k > Len(es) THEN [i |-> k, parts |-> parts]
    ELSE LET next_type == es[k].type
             next_text == es[k].text
             stop == [i |-> k, parts |-> parts]
         IN  IF next_type \notin SpeakerRunTypes THEN stop
             ELSE IF is_name_indicator(next_text) THEN stop
             ELSE IF StartsWith(Strip(next_text), Markers.BreakMarker) THEN stop
             ELSE IF EndsWithPunct(next_text)
             THEN IF HasUnclosedQuote(Append(parts, next_text))
                  THEN QuoteLookahead(es, k + 1, Append(parts, next_text))
                  ELSE [i |-> k + 1, parts |-> Append(parts, next_text)]
             ELSE IF is_bytecode(next_text) THEN SpeakerRun(es, k + 1, parts)
             ELSE IF HasJapanese(next_text) /\ HasEnglish(next_text) THEN stop
             ELSE IF RunSwitchesLanguage(parts, next_text) THEN stop
             ELSE IF StartsNewSentence(parts, next_text) THEN stop
             ELSE SpeakerRun(es, k + 1, Append(parts, next_text))

\* A step of the main loop yields the next cursor and the utterances it
\* appends to combined (none or one).
StepResult(next_i, out) == [i |-> next_i, out |-> out]

\* lines 352-508: the entry at k is a speaker name
SpeakerStep(es, k) ==
    LET run == SpeakerRun(es, k + 1, <<>>)
    IN  StepResult(run.i,
            IF run.parts # <<>>
            THEN <<Utterance(es[k].index, JoinParts(Head(run.parts), Tail(run.parts)),
                             es[k].text, 4)>>
            ELSE <<>>)

\* short texts need MinKeepLen characters, or MinJapaneseLen with Japanese
MinKeepLen == 3
MinJapaneseLen == 2

\* lines 509-545: type 0x02/0x03 whose text is not a speaker name
NonSpeakerStep(es, k) ==
    LET current_text == es[k].text
        text_len == Len(Strip(current_text))
        keep == <<Utterance(es[k].index, current_text, <<>>, es[k].type)>>
    IN  IF text_len >= MinJapaneseLen /\ HasJapanese(current_text) /\ ~is_bytecode(current_text)
        THEN StepResult(k + 1, keep)
        ELSE IF is_name_indicator(current_text) THEN StepResult(k + 1, <<>>)
        ELSE IF ~is_bytecode(current_text) THEN StepResult(k + 1, keep)
        ELSE StepResult(k + 1, <<>>)

\* lines 548-562: type 0x12 narration
NarrationStep(es, k) ==
    IF is_bytecode(es[k].text) THEN StepResult(k + 1, <<>>)
    ELSE StepResult(k + 1, <<Utterance(es[k].index, es[k].text, <<>>, 18)>>)

\* lines 568-583: type 0x01 English choice words
ChoiceWordStep(es, k) ==
    IF Lower(es[k].text) \notin ENGLISH_CHOICE_WORDS THEN StepResult(k + 1, <<>>)
    ELSE StepResult(k + 1, <<Utterance(es[k].index, es[k].text, <<>>, 2)>>)

\* lines 594-614: backward search for the speaker of a type 0x07 entry;
\* <<>> when there is none
RECURSIVE Type07Speaker(_, _)
Type07Speaker(es, j) ==
    IF j < 1 THEN <<>>
    ELSE IF es[j].type \in {2, 3}
         THEN (IF is_speaker_name(es[j].text) THEN es[j].text ELSE <<>>)
    ELSE IF es[j].type \in Type07StopTypes THEN <<>>
    ELSE Type07Speaker(es, j - 1)

\* lines 621-652: look-ahead of a type 0x07 entry; n counts the entries whose
\* text was taken (the increments of i)
RECURSIVE Type07Lookahead(_, _, _, _, _)
Type07Lookahead(es, k, j, text, n) ==
    IF j > Len(es) THEN [text |-> text, n |-> n]
    ELSE IF es[j].type \notin Type07CombineTypes THEN [text |-> text, n |-> n]
    ELSE IF es[j].type = 7 /\ es[j].index # es[k].index THEN [text |-> text, n |-> n]
    ELSE IF is_name_indicator(es[j].text) THEN [text |-> text, n |-> n]
    ELSE IF is_bytecode(es[j].text) THEN Type07Lookahead(es, k, j + 1, text, n)
    ELSE Type07Lookahead(es, k, j + 1, JoinPart(text, es[j].text), n + 1)

\* lines 586-672: type 0x07
Type07Step(es, k) ==
    IF is_bytecode(es[k].text) THEN StepResult(k + 1, <<>>)
    ELSE LET look == Type07Lookahead(es, k, k + 1, es[k].text, 0)
         IN  StepResult(k + look.n + 1,
                 <<Utterance(es[k].index, look.text, Type07Speaker(es, k - 1), 7)>>)

\* lines 681-699: backward search for a #Name[X] indicator; <<>> when none
RECURSIVE NameLookback(_, _, _)
NameLookback(es, j, name_indicator) ==
    IF j < 1 THEN name_indicator
    ELSE IF is_name_indicator(es[j].text) THEN NameLookback(es, j - 1, es[j].text)
    ELSE IF es[j].type \in DialogueTypes THEN name_indicator
    ELSE NameLookback(es, j - 1, name_indicator)

\* would appending next_text switch between Japanese and English, counting
\* ASCII letters only (lines 746-755)
DialogueSwitchesLanguage(combined_text, next_text) ==
    LET combined_has_japanese == HasJapanese(combined_text)
        combined_has_english == AsciiAlphaCount(combined_text) > LatinThreshold
        next_has_japanese == HasJapanese(next_text)
        next_has_english == AsciiAlphaCount(next_text) > LatinThreshold
    IN  \/ combined_has_japanese /\ next_has_english /\ ~next_has_japanese
        \/ combined_has_english /\ next_has_japanese /\ ~next_has_english

\* lines 717-765: look-ahead of a dialogue entry; returns the text and the
\* cursor j the loop stops at
RECURSIVE DialogueLookahead(_, _, _)
DialogueLookahead(es, j, text) ==
    IF j > Len(es) THEN [text |-> text, j |-> j]
    ELSE IF es[j].type \notin DialogueCombineTypes THEN [text |-> text, j |-> j]
    ELSE IF is_name_indicator(es[j].text) THEN [text |-> text, j |-> j]
    ELSE IF es[j].type \notin NoBytecodeSkipTypes /\ is_bytecode(es[j].text)
         THEN DialogueLookahead(es, j + 1, text)
    ELSE IF DialogueSwitchesLanguage(text, es[j].text) THEN [text |-> text, j |-> j]
    ELSE IF should_combine_entries(text, es[j].text)
         THEN DialogueLookahead(es, j + 1, JoinPart(text, es[j].text))
    ELSE [text |-> text, j |-> j]

\* the name indicator is put before the text on a line of its own
WithNameIndicator(name_indicator, text) ==
    IF name_indicator # <<>> THEN name_indicator \o <<10>> \o text ELSE text

\* a combined text needs Japanese or more than MinFinalLetters letters
MinFinalLetters == 3

\* a length filter without the exemption of Japanese fragments
ShorterThanKeepLen(current_text) == Len(Strip(current_text)) < MinKeepLen

\* is a short text dropped (lines 708-712 and 793-795, negated)
TooShort(current_text) ==
    LET text_len == Len(Strip(current_text))
    IN  text_len < MinKeepLen /\ ~(text_len >= MinJapaneseLen /\ HasJapanese(current_text))

\* lines 679-785: the dialogue types
DialogueStep(es, k) ==
    LET name_indicator == NameLookback(es, k - 1, <<>>)
        look == DialogueLookahead(es, k + 1, es[k].text)
        combined_text == WithNameIndicator(name_indicator, look.text)
    IN  IF is_bytecode(es[k].text) THEN StepResult(k + 1, <<>>)
        ELSE IF TooShort(es[k].text) THEN StepResult(k + 1, <<>>)
        ELSE StepResult(look.j,
                 IF HasJapanese(combined_text) \/ AlphaCount(combined_text) > MinFinalLetters
                 THEN <<Utterance(es[k].index, combined_text, name_indicator, es[k].type)>>
                 ELSE <<>>)

\* lines 788-802: any other type
UnknownStep(es, k) ==
    IF is_bytecode(es[k].text) THEN StepResult(k + 1, <<>>)
    ELSE IF TooShort(es[k].text) THEN StepResult(k + 1, <<>>)
    ELSE StepResult(k + 1, <<Utterance(es[k].index, es[k].text, <<>>, es[k].type)>>)

\* which branch of the main loop takes the entry at k
IsSpeakerEntry(e) == e.type \in {2, 3} /\ is_speaker_name(e.text)
IsNonSpeakerEntry(e) == e.type \in {2, 3} /\ ~is_speaker_name(e.text)
IsNarrationEntry(e) == e.type = 18
IsChoiceWordEntry(e) == e.type = 1
IsType07Entry(e) == e.type = 7
IsDialogueEntry(e) == e.type \in DialogueTypes /\ e.type # 7
IsUnknownEntry(e) == e.type \notin ({1, 2, 3, 18} \cup DialogueTypes)

\* one iteration of the main while loop (lines 341-802)
AssembleStep(es, k) ==
    IF IsSpeakerEntry(es[k]) THEN SpeakerStep(es, k)
    ELSE IF IsNonSpeakerEntry(es[k]) THEN NonSpeakerStep(es, k)
    ELSE IF IsNarrationEntry(es[k]) THEN NarrationStep(es, k)
    ELSE IF IsChoiceWordEntry(es[k]) THEN ChoiceWordStep(es, k)
    ELSE IF IsType07Entry(es[k]) THEN Type07Step(es, k)
    ELSE IF IsDialogueEntry(es[k]) THEN DialogueStep(es, k)
    ELSE UnknownStep(es, k)

\* the main loop from cursor k on, before the choice grouping
RECURSIVE AssembleFrom(_, _, _)
AssembleFrom(es, k, out) ==
    IF k > Len(es) THEN out
    ELSE LET step == AssembleStep(es, k)
         IN  AssembleFrom(es, step.i, out \o step.out)

\* combine_dialogue_entries as a whole
combine_dialogue_entries(es) == group_related_choices(AssembleFrom(es, 1, <<>>))

(***************************************************************************)
(* Bytes                                                                   *)
(*                                                                         *)
(* Offsets into the buffer are 0-based, as in the code: byte p of the      *)
(* buffer is bytes[p + 1].                                                 *)
(***************************************************************************)
\* bytes[first:last]
Slice(bytes, first, last) ==
    SubSeq(bytes, first + 1, IF last < Len(bytes) THEN last ELSE Len(bytes))

\* struct.unpack raises unless the slice has exactly n bytes
CanUnpack(bytes, p, n) == p + n <= Len(bytes)

\* struct.unpack('<H', bytes[p:p+2])[0]
LE16(bytes, p) == bytes[p + 1] + 256 * bytes[p + 2]

\* struct.unpack('<I', bytes[p:p+4])[0].  The code compares the value only
\* with numbers below 2^31 and stores it only when it is at most 100000, so a
\* value of 2^31 or more is represented by 2^31 - 1.
LE32(bytes, p) ==
    IF bytes[p + 4] >= 128 THEN 2147483647
    ELSE bytes[p + 1] + 256 * bytes[p + 2] + 65536 * bytes[p + 3]
         + 16777216 * bytes[p + 4]

\* the four bytes from offset p on are null
FourNulls(bytes, p) ==
    bytes[p + 1] = 0 /\ bytes[p + 2] = 0 /\ bytes[p + 3] = 0 /\ bytes[p + 4] = 0

\* bytes.decode('utf-8', errors='replace'): an ill-formed sequence is replaced,
\* up to its longest well-formed prefix, by one U+FFFD
RECURSIVE DecodeUtf8(_)
DecodeUtf8(b) ==
    IF b = <<>> THEN <<>>
    ELSE LET n == Len(b)
             b1 == b[1]
             IsCont(k) == k <= n /\ InRange(b[k], 128, 191)
             Bits(k) == b[k] - 128
             Rest(k) == DecodeUtf8(SubSeq(b, k + 1, n))
             Bad(k) == <<REPLACEMENT_CHAR>> \o Rest(k)
             Second3 == IF b1 = 224 THEN n >= 2 /\ InRange(b[2], 160, 191)
                        ELSE IF b1 = 237 THEN n >= 2 /\ InRange(b[2], 128, 159)
                        ELSE IsCont(2)
             Second4 == IF b1 = 240 THEN n >= 2 /\ InRange(b[2], 144, 191)
                        ELSE IF b1 = 244 THEN n >= 2 /\ InRange(b[2], 128, 143)
                        ELSE IsCont(2)
         IN  IF b1 < 128 THEN <<b1>> \o Rest(1)
             ELSE IF InRange(b1, 194, 223)
             THEN IF IsCont(2) THEN <<(b1 - 192) * 64 + Bits(2)>> \o Rest(2)
                  ELSE Bad(1)
             ELSE IF InRange(b1, 224, 239)
             THEN IF ~Second3 THEN Bad(1)
                  ELSE IF ~IsCont(3) THEN Bad(2)
                  ELSE <<(b1 - 224) * 4096 + Bits(2) * 64 + Bits(3)>> \o Rest(3)
             ELSE IF InRange(b1, 240, 244)
             THEN IF ~Second4 THEN Bad(1)
                  ELSE IF ~IsCont(3) THEN Bad(2)
                  ELSE IF ~IsCont(4) THEN Bad(3)
                  ELSE <<(b1 - 240) * 262144 + Bits(2) * 4096 + Bits(3) * 64
                         + Bits(4)>> \o Rest(4)
             ELSE Bad(1)

\* bytes.decode('ascii', errors='replace')
DecodeAscii(b) == [k \in DOMAIN b |-> IF b[k] < 128 THEN b[k] ELSE REPLACEMENT_CHAR]

(***************************************************************************)
(* FormatDetector: detect_format                                           *)
(***************************************************************************)
\* b'STCM2L'
MAGIC == <<83, 84, 67, 77, 50, 76>>
\* a dialogue-format buffer holds at least MinHeaderLen bytes
MinHeaderLen == 8
\* entry counts below MaxEntryCount are taken as reasonable
MaxEntryCount == 10000

\* a detector that takes the count MaxEntryCount itself as reasonable
detect_format_inclusive(bytes) ==
    IF bytes = <<>> THEN "unknown"
    ELSE IF Slice(bytes, 0, 6) = MAGIC THEN "full"
    ELSE IF Len(bytes) >= MinHeaderLen /\ LE32(bytes, 0) <= MaxEntryCount THEN "dialogue"
    ELSE "unknown"

detect_format(bytes) ==
    IF bytes = <<>> THEN "unknown"
    ELSE IF Slice(bytes, 0, 6) = MAGIC THEN "full"
    ELSE IF Len(bytes) >= MinHeaderLen /\ LE32(bytes, 0) < MaxEntryCount THEN "dialogue"
    ELSE "unknown"

(***************************************************************************)
(* EntryExtractor: _parse_padded_format, _parse_compact_format             *)
(***************************************************************************)
\* a dict appended by one of the two strategies
RawEntry(index, type, text, size, offset) ==
    [index |-> index, type |-> type, text |-> text, size |-> size, offset |-> offset]

\* entry types the padded strategy accepts (line 1049), the types its
\* realignment loop stops at (line 1137), and those the compact strategy
\* accepts (line 1179)
PaddedTypes == (1..12) \cup {15, 16, 17, 18}
PaddedNextTypes == (1..14) \cup {16, 17}
CompactTypes == 1..18
\* the type whose size field is a placeholder
PlaceholderSizeType == 16

\* the padded loop runs while pos < len - PaddedTail, the padding skip of the
\* compact strategy while pos < len - CompactTail
PaddedTail == 24
CompactTail == 16
\* both strategies read a header of HeaderLen bytes (type, index, size)
HeaderLen == 12
MaxEntrySize == 10000
MinCompactSize == 4
MaxEntryIndex == 100000
\* a placeholder-size text is scanned for at most MaxScanLen bytes
MaxScanLen == 500

\* how many of the four bytes from offset p on exist and are null
NullCount(bytes, p) ==
    Cardinality({k \in 0..3 : p + k < Len(bytes) /\ bytes[p + k + 1] = 0})

\* the end of the text of a placeholder-size entry: the scan stops at a null
\* byte that starts two or more nulls among four bytes; the compact strategy
\* looks at them only when more than HeaderLen bytes follow (room = HeaderLen)
RECURSIVE TextEnd(_, _, _, _)
TextEnd(bytes, text_start, text_end, room) ==
    IF ~(text_end < Len(bytes) /\ text_end - text_start < MaxScanLen) THEN text_end
    ELSE IF /\ bytes[text_end + 1] = 0
            /\ text_end + room < Len(bytes)
            /\ NullCount(bytes, text_end) >= 2
         THEN text_end
    ELSE TextEnd(bytes, text_start, text_end + 1, room)

\* string_data.rstrip(b'\x00').decode('utf-8', errors='replace')
EntryText(bytes, first, last) == DecodeUtf8(StripNulRight(Slice(bytes, first, last)))

\* an entries list that takes every entry
WithEveryEntry(acc, e) == Append(acc, e)

\* the entries list with the entry appended when its text passes the filter
WithEntry(acc, e) ==
    IF e.text # <<>> /\ _is_valid_text(e.text) THEN Append(acc, e) ELSE acc

\* lines 1111-1141: skip ahead to the next padding that a header follows
RECURSIVE PaddedRealign(_, _)
PaddedRealign(bytes, p) ==
    IF ~(p < Len(bytes) - PaddedTail) THEN p
    ELSE IF ~FourNulls(bytes, p) THEN PaddedRealign(bytes, p + 1)
    ELSE LET check_offset == IF p + 8 <= Len(bytes) /\ FourNulls(bytes, p + 4) THEN 8 ELSE 4
             next_type == LE32(bytes, p + check_offset)
             next_size == LE32(bytes, p + check_offset + 8)
         IN  IF /\ next_type \in PaddedNextTypes
                /\ (next_type = PlaceholderSizeType
                    \/ (1 <= next_size /\ next_size <= MaxEntrySize))
             THEN p
             ELSE PaddedRealign(bytes, p + 1)

\* the while loop of _parse_padded_format from cursor p on (lines 1023-1145)
RECURSIVE PaddedFrom(_, _, _)
PaddedFrom(bytes, p, acc) ==
    IF ~(p < Len(bytes) - PaddedTail) THEN acc
    ELSE IF ~FourNulls(bytes, p) THEN PaddedFrom(bytes, p + 1, acc)
    ELSE LET padding_offset == IF p + 8 <= Len(bytes) /\ FourNulls(bytes, p + 4) THEN 8 ELSE 4
             h == p + padding_offset
             entry_type == LE32(bytes, h)
             entry_index == LE32(bytes, h + 4)
             entry_size == IF entry_type = PlaceholderSizeType
                           THEN TextEnd(bytes, h + HeaderLen, h + HeaderLen, 0) - (h + HeaderLen)
                           ELSE LE32(bytes, h + 8)
             string_end == h + HeaderLen + entry_size
             e == RawEntry(entry_index, entry_type, EntryText(bytes, h + HeaderLen, string_end),
                           entry_size, p)
         IN  IF ~CanUnpack(bytes, h, HeaderLen) THEN PaddedFrom(bytes, p + 1, acc)
             ELSE IF entry_type \notin PaddedTypes THEN PaddedFrom(bytes, p + 1, acc)
             ELSE IF entry_size < 1 THEN PaddedFrom(bytes, p + 1, acc)
             ELSE IF entry_type # PlaceholderSizeType /\ entry_size > MaxEntrySize
                  THEN PaddedFrom(bytes, p + 1, acc)
             ELSE IF entry_index > MaxEntryIndex THEN PaddedFrom(bytes, p + 1, acc)
             ELSE IF string_end > Len(bytes) THEN acc
             ELSE PaddedFrom(bytes, PaddedRealign(bytes, string_end), WithEntry(acc, e))

_parse_padded_format(bytes) == PaddedFrom(bytes, 0, <<>>)

\* lines 1247-1248: skip null padding after a compact entry
RECURSIVE CompactSkip(_, _)
CompactSkip(bytes, p) ==
    IF p < Len(bytes) - CompactTail /\ bytes[p + 1] = 0 THEN CompactSkip(bytes, p + 1)
    ELSE p

\* the while loop of _parse_compact_format from cursor p on (lines 1165-1251)
RECURSIVE CompactFrom(_, _, _)
CompactFrom(bytes, p, acc) ==
    IF ~(p + HeaderLen <= Len(bytes)) THEN acc
    ELSE LET entry_type == LE32(bytes, p)
             entry_index == LE32(bytes, p + 4)
             entry_size == IF entry_type = PlaceholderSizeType
                           THEN TextEnd(bytes, p + HeaderLen, p + HeaderLen, HeaderLen)
                                - (p + HeaderLen)
                           ELSE LE32(bytes, p + 8)
             string_end == p + HeaderLen + entry_size
             e == RawEntry(entry_index, entry_type, EntryText(bytes, p + HeaderLen, string_end),
                           entry_size, p)
         IN  IF entry_type \notin CompactTypes THEN CompactFrom(bytes, p + 1, acc)
             ELSE IF entry_index > MaxEntryIndex THEN CompactFrom(bytes, p + 1, acc)
             ELSE IF entry_type = PlaceholderSizeType /\ entry_size < 1
                  THEN CompactFrom(bytes, p + 1, acc)
             ELSE IF /\ entry_type # PlaceholderSizeType
                     /\ (entry_size < MinCompactSize \/ entry_size > MaxEntrySize)
                  THEN CompactFrom(bytes, p + 1, acc)
             ELSE IF string_end > Len(bytes) THEN acc
             ELSE CompactFrom(bytes, CompactSkip(bytes, string_end), WithEntry(acc, e))

_parse_compact_format(bytes) == CompactFrom(bytes, 0, <<>>)

(***************************************************************************)
(* decompile_full_format: the merge of the two strategies' lists           *)
(***************************************************************************)
\* a sort key that puts the later offset first among equal indices
KeyOffsetDescending(a, b) == a.index < b.index \/ (a.index = b.index /\ a.offset >= b.offset)

\* list.sort(key=lambda e: (e['index'], e.get('offset', 0))): stable
KeyLE(a, b) == a.index < b.index \/ (a.index = b.index /\ a.offset <= b.offset)

RECURSIVE InsertByKey(_, _)
InsertByKey(sorted, e) ==
    IF sorted = <<>> THEN <<e>>
    ELSE IF KeyLE(sorted[Len(sorted)], e) THEN Append(sorted, e)
    ELSE Append(InsertByKey(SubSeq(sorted, 1, Len(sorted) - 1), e), sorted[Len(sorted)])

RECURSIVE SortByKey(_)
SortByKey(es) ==
    IF es = <<>> THEN <<>>
    ELSE InsertByKey(SortByKey(SubSeq(es, 1, Len(es) - 1)), es[Len(es)])

\* a merge that keeps every padded entry
MergeAllEntries(padded, compact) ==
    LET valid(e) == _is_valid_text(e.text)
    IN  SelectSeq(SortByKey(compact \o padded), valid)

\* lines 1382-1399: all compact entries, the padded entries whose index no
\* compact entry has, sorted by (index, offset), filtered again
MergeEntries(padded, compact) ==
    LET compact_indices == {compact[k].index : k \in DOMAIN compact}
        kept == SelectSeq(padded, LAMBDA e : e.index \notin compact_indices)
        valid(e) == _is_valid_text(e.text)
    IN  SelectSeq(SortByKey(compact \o kept), valid)

decompile_full_format(bytes) ==
    combine_dialogue_entries(
        MergeEntries(_parse_padded_format(bytes), _parse_compact_format(bytes)))

(***************************************************************************)
(* decompile_dialogue_format                                               *)
(***************************************************************************)
\* b'yougo', b'her01', b'zara0', b'ness0', b'pear0', b'rich0', b'rath0',
\* b'elza0', b'tiara'
SpeakerPrefixes ==
    { <<121, 111, 117, 103, 111>>, <<104, 101, 114, 48, 49>>,
      <<122, 97, 114, 97, 48>>, <<110, 101, 115, 115, 48>>,
      <<112, 101, 97, 114, 48>>, <<114, 105, 99, 104, 48>>,
      <<114, 97, 116, 104, 48>>, <<101, 108, 122, 97, 48>>,
      <<116, 105, 97, 114, 97>> }

\* 'memory_init', 'memory_exit', 'COLLECTION_LINK', 'scene_play', 'suma'
SkippedSegments ==
    { <<109, 101, 109, 111, 114, 121, 95, 105, 110, 105, 116>>,
      <<109, 101, 109, 111, 114, 121, 95, 101, 120, 105, 116>>,
      <<67, 79, 76, 76, 69, 67, 84, 73, 79, 78, 95, 76, 73, 78, 75>>,
      BytecodeWords.scene_play, BytecodeWords.suma }

\* entry types of the dialogue format are 1..MaxDialogueType
MaxDialogueType == 100

\* a dict appended by decompile_dialogue_format
DialogueEntry(index, type, speaker, text) ==
    [index |-> index, type |-> type, speaker |-> speaker, text |-> text]

\* lines 863-888: is offset o the start of an entry header
IsEntryOffset(bytes, o, max_entries) ==
    /\ o + 4 < Len(bytes)
    /\ bytes[o + 2] = 0 /\ bytes[o + 4] = 0
    /\ 1 <= LE16(bytes, o) /\ LE16(bytes, o) <= MaxDialogueType
    /\ 1 <= LE16(bytes, o + 2) /\ LE16(bytes, o + 2) <= max_entries
    /\ o + 9 < Len(bytes)
    /\ Slice(bytes, o + 4, o + 9) \in SpeakerPrefixes

\* the first offset in p..(last - 1) whose byte is (stop = TRUE) or is not
\* (stop = FALSE) a null or 0xFF byte; last when there is none
RECURSIVE ScanPadding(_, _, _, _)
ScanPadding(bytes, p, last, stop) ==
    IF p >= last THEN p
    ELSE IF (bytes[p + 1] \in {0, 255}) = stop THEN p
    ELSE ScanPadding(bytes, p + 1, last, stop)

\* lines 926-964: the text segments between search_pos and next_offset
RECURSIVE TextSegments(_, _, _, _)
TextSegments(bytes, search_pos, next_offset, acc) ==
    LET text_start_local == ScanPadding(bytes, search_pos, next_offset, FALSE)
        text_end_local == ScanPadding(bytes, text_start_local, next_offset, TRUE)
        segment_text == DecodeUtf8(Slice(bytes, text_start_local, text_end_local))
        kept == /\ text_end_local > text_start_local + 1
                /\ Len(segment_text) > 2
                /\ segment_text \notin SkippedSegments
                /\ segment_text[1] \notin {64, 35}
    IN  IF search_pos >= next_offset \/ text_start_local >= next_offset THEN acc
        ELSE TextSegments(bytes, text_end_local + 1, next_offset,
                          IF kept THEN Append(acc, segment_text) ELSE acc)

\* text_segments.sort(key=len, reverse=True): stable, longest first
RECURSIVE SortByLength(_)
SortByLength(segs) ==
    IF segs = <<>> THEN <<>>
    ELSE LET longest == CHOOSE k \in DOMAIN segs :
                 /\ \A m \in DOMAIN segs : Len(segs[m]) <= Len(segs[k])
                 /\ \A m \in 1..(k - 1) : Len(segs[m]) < Len(segs[k])
         IN  <<segs[longest]>>
             \o SortByLength(SubSeq(segs, 1, longest - 1) \o SubSeq(segs, longest + 1, Len(segs)))

\* ', '.join(notes)
RECURSIVE JoinNotes(_)
JoinNotes(notes) ==
    IF notes = <<>> THEN <<>>
    ELSE IF Len(notes) = 1 THEN notes[1]
    ELSE notes[1] \o <<44, 32>> \o JoinNotes(Tail(notes))

\* lines 968-978: the longest segment, the others longer than 5 characters
\* appended as ' [a, b]'
SegmentsText(text_segments) ==
    LET sorted == SortByLength(text_segments)
        notes == SelectSeq(Tail(sorted), LAMBDA seg : Len(seg) > 5)
    IN  IF text_segments = <<>> THEN <<>>
        ELSE IF notes = <<>> THEN sorted[1]
        ELSE sorted[1] \o <<32, 91>> \o JoinNotes(notes) \o <<93>>

\* bytes.rstrip(b'\xff')
RECURSIVE RStripFF(_)
RStripFF(b) ==
    IF b # <<>> /\ b[Len(b)] = 255 THEN RStripFF(SubSeq(b, 1, Len(b) - 1)) ELSE b

\* lines 898-987: the entry at offset, which runs to next_offset; <<>> when
\* the entry has neither speaker nor text
ParseDialogueEntry(bytes, offset, next_offset) ==
    LET speaker_offset == offset + 4
        speaker_data == Slice(bytes, speaker_offset, next_offset)
        nulls == {k \in DOMAIN speaker_data : speaker_data[k] = 0}
        null_pos == IF nulls = {} THEN -1
                    ELSE (CHOOSE k \in nulls : \A m \in nulls : k <= m) - 1
        speaker == IF null_pos >= 0 THEN DecodeAscii(SubSeq(speaker_data, 1, null_pos))
                   ELSE DecodeAscii(RStripFF(speaker_data))
        text_start == IF null_pos >= 0 THEN speaker_offset + null_pos + 1
                      ELSE speaker_offset + Len(speaker) + 1
        text == SegmentsText(TextSegments(bytes, text_start, next_offset, <<>>))
    IN  IF speaker # <<>> \/ (text # <<>> /\ Strip(text) # <<>>)
        THEN <<DialogueEntry(LE16(bytes, offset + 2), LE16(bytes, offset), speaker, text)>>
        ELSE <<>>

\* lines 894-987: the entries at the sorted offsets from the k-th on
RECURSIVE ParseDialogueEntries(_, _, _)
ParseDialogueEntries(bytes, entry_offsets, k) ==
    IF k > Len(entry_offsets) THEN <<>>
    ELSE IF entry_offsets[k] + 8 > Len(bytes) THEN <<>>
    ELSE ParseDialogueEntry(bytes, entry_offsets[k],
                            IF k + 1 <= Len(entry_offsets) THEN entry_offsets[k + 1]
                            ELSE Len(bytes))
         \o ParseDialogueEntries(bytes, entry_offsets, k + 1)

\* the set s as an increasing sequence: sorted(set(entry_offsets))
RECURSIVE Ascending(_)
Ascending(s) ==
    IF s = {} THEN <<>>
    ELSE LET least == CHOOSE x \in s : \A y \in s : x <= y
         IN  <<least>> \o Ascending(s \ {least})

\* lines 840-989: the function after its length guard.  The two header words
\* are unpacked first; struct.error escapes when a slice is short.
DialogueBody(bytes) ==
    IF ~CanUnpack(bytes, 0, 4) \/ ~CanUnpack(bytes, 4, 4)
    THEN [entries |-> <<>>, raised |-> TRUE]
    ELSE LET max_entries == LE32(bytes, 0)
             entry_offsets == Ascending({o \in 0..(Len(bytes) - 13) :
                                            IsEntryOffset(bytes, o, max_entries)})
         IN  [entries |-> ParseDialogueEntries(bytes, entry_offsets, 1), raised |-> FALSE]

\* the parser without the length guard of lines 835-838
decompile_dialogue_format_unguarded(bytes) == DialogueBody(bytes)

\* lines 835-838: a buffer shorter than the header yields no entries
decompile_dialogue_format(bytes) ==
    IF Len(bytes) < MinHeaderLen THEN [entries |-> <<>>, raised |-> FALSE]
    ELSE DialogueBody(bytes)

(***************************************************************************)
(* decompile: one step per function the call goes through                  *)
(***************************************************************************)
\* line 63: the constructor leaves self.data = None, a value that is no
\* byte buffer
NoData == <<-1>>

\* lines 66-72 and 1408: read_file stores the bytes of the file
ReadFile(bytes) ==
    /\ pc = "start"
    /\ data' = bytes
    /\ pc' = "read"
    /\ UNCHANGED <<format, padded_entries, compact_entries, entries, i, combined,
                   result, raised>>

\* lines 73-75 and 1408-1409: the file cannot be read; decompile returns []
ReadFails ==
    /\ pc = "start"
    /\ result' = <<>>
    /\ pc' = "done"
    /\ UNCHANGED <<data, format, padded_entries, compact_entries, entries, i,
                   combined, raised>>

\* line 1411: format_type = self.detect_format()
DetectFormat ==
    /\ pc = "read"
    /\ format' = detect_format(data)
    /\ pc' = "detected"
    /\ UNCHANGED <<data, padded_entries, compact_entries, entries, i, combined,
                   result, raised>>

\* the call of decompile_dialogue_format and the return of its list
CallDialogueFormat ==
    LET r == decompile_dialogue_format(data)
    IN  /\ result' = r.entries
        /\ raised' = r.raised
        /\ pc' = "done"
        /\ UNCHANGED <<data, format, padded_entries, compact_entries, entries, i,
                       combined>>

\* lines 1414-1415
DecompileDialogue ==
    /\ pc = "detected"
    /\ format = "dialogue"
    /\ CallDialogueFormat

\* lines 1418-1420: an unknown format is given to the dialogue parser
DecompileUnknown ==
    /\ pc = "detected"
    /\ format = "unknown"
    /\ CallDialogueFormat

\* lines 1416-1417 and 1376: decompile_full_format starts with the padded
\* strategy
ParsePadded ==
    /\ pc = "detected"
    /\ format = "full"
    /\ padded_entries' = _parse_padded_format(data)
    /\ pc' = "padded"
    /\ UNCHANGED <<data, format, compact_entries, entries, i, combined, result, raised>>

\* line 1377
ParseCompact ==
    /\ pc = "padded"
    /\ compact_entries' = _parse_compact_format(data)
    /\ pc' = "compact"
    /\ UNCHANGED <<data, format, padded_entries, entries, i, combined, result, raised>>

\* lines 1382-1399
Merge ==
    /\ pc = "compact"
    /\ entries' = MergeEntries(padded_entries, compact_entries)
    /\ pc' = "merged"
    /\ UNCHANGED <<data, format, padded_entries, compact_entries, i, combined,
                   result, raised>>

\* line 1402
Combine ==
    /\ pc = "merged"
    /\ combined' = combine_dialogue_entries(entries)
    /\ pc' = "combined"
    /\ UNCHANGED <<data, format, padded_entries, compact_entries, entries, i,
                   result, raised>>

\* lines 1404 and 1417: the list becomes self.entries and is returned
ReturnFull ==
    /\ pc = "combined"
    /\ result' = combined
    /\ pc' = "done"
    /\ UNCHANGED <<data, format, padded_entries, compact_entries, entries, i,
                   combined, raised>>

(***************************************************************************)
(* Inputs                                                                  *)
(*                                                                         *)
(* The texts, fragments and byte buffers the specifications start from.    *)
(***************************************************************************)
Text ==
    [
      \* 'Yes'
      Yes |-> <<89, 101, 115>>,
      \* 'No'
      No |-> <<78, 111>>,
      \* 'OK'
      OK |-> <<79, 75>>,
      \* 'Cancel'
      Cancel |-> <<67, 97, 110, 99, 101, 108>>,
      \* 'Close'
      Close |-> <<67, 108, 111, 115, 101>>,
      \* '<U+306F><U+3044>'
      hai |-> <<12399, 12356>>,
      \* '<U+3044><U+3044><U+3048>'
      iie |-> <<12356, 12356, 12360>>,
      \* '<U+3046><U+3093>'
      un |-> <<12358, 12435>>,
      \* '<U+308F><U+304B><U+3063><U+305F>'
      wakatta |-> <<12431, 12363, 12387, 12383>>,
      \* '<U+3082><U+3046><U+3044><U+3061><U+3069><U+304B><U+3093><U+304C><U+3048><U+308B>'
      kangaeru |-> <<12418, 12358, 12356, 12385, 12393, 12363, 12435, 12364, 12360, 12427>>,
      \* ' <U+306F><U+3044>'
      hai_spaced |-> <<32, 12399, 12356>>,
      \* '<U+3046><U+3093> '
      un_spaced |-> <<12358, 12435, 32>>,
      \* '<U+305D><U+3046><U+3059><U+308B>'
      sousuru |-> <<12381, 12358, 12377, 12427>>,
      \* '<U+306F><U+3044>12'
      hai12 |-> <<12399, 12356, 49, 50>>,
      \* '<U+300C><U+306F><U+3044>'
      quoted_hai |-> <<12300, 12399, 12356>>,
      \* '(<U+306F><U+3044>'
      paren_hai |-> <<40, 12399, 12356>>,
      \* 'Hello there.'
      Hello |-> <<72, 101, 108, 108, 111, 32, 116, 104, 101, 114, 101, 46>>,
      \* 'Good night.'
      Night |-> <<71, 111, 111, 100, 32, 110, 105, 103, 104, 116, 46>>,
      \* 'Pearl'
      Pearl |-> <<80, 101, 97, 114, 108>>,
      \* '<U+30B6><U+30E9>'
      zara |-> <<12470, 12521>>,
      \* '<U+3053><U+3093><U+306B><U+3061><U+306F><U+3002>'
      konnichiwa |-> <<12371, 12435, 12395, 12385, 12399, 12290>>,
      \* 'ed'
      ed |-> <<101, 100>>,
      \* 'He said "hello'
      said_hello |-> <<72, 101, 32, 115, 97, 105, 100, 32, 34, 104, 101, 108, 108, 111>>,
      \* 'He said "hello.'
      said_hello_stop |-> <<72, 101, 32, 115, 97, 105, 100, 32, 34, 104, 101, 108, 108, 111, 46>>,
      \* 'world" and left.'
      world_left |-> <<119, 111, 114, 108, 100, 34, 32, 97, 110, 100, 32, 108, 101, 102, 116, 46>>,
      \* 'World" and left.'
      World_left |-> <<87, 111, 114, 108, 100, 34, 32, 97, 110, 100, 32, 108, 101, 102, 116, 46>>,
      \* '<U+3053><U+308C><U+306F><U+30DA><U+30F3><U+3067><U+3059><U+3002>'
      pen |-> <<12371, 12428, 12399, 12506, 12531, 12391, 12377, 12290>>,
      \* 'Hello there'
      Hello_open |-> <<72, 101, 108, 108, 111, 32, 116, 104, 101, 114, 101>>,
      \* 'bg01'
      bg01 |-> <<98, 103, 48, 49>>,
      \* '#Name[1]'
      name1 |-> <<35, 78, 97, 109, 101, 91, 49, 93>>,
      \* '"--world" ok.'
      break_world |-> <<34, 45, 45, 119, 111, 114, 108, 100, 34, 32, 111, 107, 46>> ]

\* str.encode('utf-8') of one character below U+10000
EncodeChar(c) ==
    IF c < 128 THEN <<c>>
    ELSE IF c < 2048 THEN <<192 + (c \div 64), 128 + (c % 64)>>
    ELSE <<224 + (c \div 4096), 128 + ((c \div 64) % 64), 128 + (c % 64)>>

RECURSIVE EncodeUtf8(_)
EncodeUtf8(t) == IF t = <<>> THEN <<>> ELSE EncodeChar(Head(t)) \o EncodeUtf8(Tail(t))

\* struct.pack('<I', v)
PackLE32(v) == <<v % 256, (v \div 256) % 256, (v \div 65536) % 256, v \div 16777216>>

Nulls(n) == [k \in 1..n |-> 0]

RECURSIVE Concat(_)
Concat(seqs) == IF seqs = <<>> THEN <<>> ELSE Head(seqs) \o Concat(Tail(seqs))

\* a compact-format entry: type, index, size, then the text bytes
CompactChunk(type, index, size, bytes) ==
    PackLE32(type) \o PackLE32(index) \o PackLE32(size) \o bytes

\* the text encoded and null-padded to the four bytes the compact strategy
\* requires, with its true size
CompactText(type, index, t) ==
    LET b == EncodeUtf8(t)
        padded == IF Len(b) < MinCompactSize THEN b \o Nulls(MinCompactSize - Len(b)) ELSE b
    IN  CompactChunk(type, index, Len(padded), padded)

\* a padded-format entry: four null bytes, then the header and the text
PaddedText(type, index, t) ==
    Nulls(4) \o CompactChunk(type, index, Len(EncodeUtf8(t)), EncodeUtf8(t))

\* the start of a full-format file and the null bytes one ends with
FullHeader == MAGIC \o <<0, 0>>
Trailer == Nulls(8)

\* entries a full-format buffer is built from: short texts only the padded
\* strategy accepts, texts both strategies find, a speaker name, texts with
\* an ill-formed byte sequence, an entry cut short, a placeholder-size entry
ChunkPool ==
    { PaddedText(1, 1, Text.Yes),
      PaddedText(2, 3, Text.No),
      PaddedText(4, 2, Text.Hello),
      CompactText(4, 1, Text.Hello),
      CompactText(2, 2, Text.hai),
      CompactText(2, 1, Text.Pearl),
      CompactChunk(2, 1, 6, EncodeUtf8(Text.Pearl) \o <<255>>),
      CompactChunk(4, 2, 7, EncodeUtf8(Text.hai) \o <<227>>),
      CompactChunk(4, 4, 40, EncodeUtf8(Text.Night)),
      CompactChunk(16, 5, 16384, EncodeUtf8(Text.iie) \o Nulls(2)) }

\* at most MaxChunks entries in a generated full-format buffer
MaxChunks == 2

ChunkSeqs == UNION {[1..n -> ChunkPool] : n \in 0..MaxChunks}

\* a buffer where index 1 is found by both strategies with different texts
\* and index 3 by the padded strategy alone
ConflictBuffer ==
    FullHeader \o PaddedText(1, 1, Text.Yes) \o CompactText(4, 1, Text.Hello)
    \o PaddedText(2, 3, Text.No) \o Trailer

\* a full-format buffer without any structured entry: the magic, null bytes
\* up to the default start of the code section, two null-terminated strings
LegacyOnlyBuffer ==
    FullHeader \o Nulls(36) \o EncodeUtf8(Text.Pearl) \o <<0>>
    \o EncodeUtf8(Text.Hello) \o <<0>> \o Nulls(4)

\* a buffer whose entries are not in index order and where one index
\* occurs twice
ReorderBuffer ==
    FullHeader \o CompactText(4, 3, Text.Hello) \o CompactText(4, 1, Text.Night)
    \o CompactText(4, 1, Text.Hello) \o Trailer

\* two padded entries back to back, the second under each tag the padded
\* strategy accepts
BackToBackBuffers ==
    {FullHeader \o PaddedText(4, 1, Text.Hello) \o PaddedText(tag, 2, Text.Night)
        \o Trailer : tag \in PaddedTypes}

FullBuffers ==
    {FullHeader \o Concat(chunks) \o Trailer : chunks \in ChunkSeqs}
    \cup {ConflictBuffer, LegacyOnlyBuffer, ReorderBuffer}
    \cup BackToBackBuffers

\* buffers around the thresholds of detect_format: empty, shorter than the
\* magic, shorter than a header, counts 9999 and 10000, a count over 2^31
DetectBuffers ==
    { <<>>, <<83>>, SubSeq(MAGIC, 1, 5), MAGIC, <<115, 116, 99, 109, 50, 108, 0, 0>>,
      <<3, 0, 0, 0>>, <<3, 0, 0, 0, 0, 0, 0>>, <<3, 0, 0, 0, 0, 0, 0, 0>>,
      PackLE32(9999) \o Nulls(4), PackLE32(10000) \o Nulls(4),
      <<0, 0, 0, 128, 0, 0, 0, 0, 0>>, <<255, 255, 255, 255, 0, 0, 0, 0>>,
      <<0, 0, 1, 0, 0, 0, 0, 0>>, Nulls(8) }

\* scenario A: a header with entry count 3, then three null-terminated
\* strings of which exactly one, the first or the second, is a roster name
ScenarioAStrings == {Text.Pearl, Text.zara, Text.Hello, Text.konnichiwa}

ScenarioATriples ==
    {s \in [1..3 -> ScenarioAStrings] :
        /\ Cardinality({k \in 1..3 : is_speaker_name(s[k])}) = 1
        /\ ~is_speaker_name(s[3])}

ScenarioABuffer(s) ==
    PackLE32(3) \o Nulls(4)
    \o Concat([k \in 1..3 |-> EncodeUtf8(s[k]) \o <<0>>])

ScenarioA == {ScenarioABuffer(s) : s \in ScenarioATriples}

\* an entry of the dialogue format: type and index in two bytes each, the
\* speaker label, a null, the text bytes, a null
DialogueChunk(type, index, label, bytes) ==
    <<type, 0, index, 0>> \o label \o <<0>> \o bytes \o <<0>>

DialogueChunkPool ==
    { DialogueChunk(4, 1, <<121, 111, 117, 103, 111>>, EncodeUtf8(Text.Hello)),
      DialogueChunk(4, 2, <<112, 101, 97, 114, 48, 49>>, EncodeUtf8(Text.konnichiwa)),
      DialogueChunk(80, 3, <<116, 105, 97, 114, 97>>,
                    EncodeUtf8(Text.Night) \o <<255>> \o EncodeUtf8(Text.kangaeru)) }

\* dialogue-format buffers with entry count 3 and with a count no smaller
\* than the ceiling of detect_format (70000)
DialogueBuffers ==
    {header \o Concat(chunks) \o Trailer :
        header \in {PackLE32(3) \o Nulls(4), PackLE32(70000) \o Nulls(4)},
        chunks \in UNION {[1..n -> DialogueChunkPool] : n \in 0..MaxChunks}}

\* scenario B: five compact-format fragments that carry one tag
ScenarioBTags == {1, 2, 3, 4, 7, 18}

ScenarioBTexts ==
    { <<Text.hai, Text.iie, Text.un, Text.wakatta, Text.kangaeru>>,
      <<Text.Yes, Text.No, Text.OK, Text.Cancel, Text.Close>>,
      <<Text.hai_spaced, Text.iie, Text.un_spaced, Text.wakatta, Text.sousuru>>,
      <<Text.hai12, Text.quoted_hai, Text.un, Text.paren_hai, Text.hai>> }

\* all indices equal; increasing to the edge of the window; not in file
\* order; the last one outside the window
ScenarioBIndices ==
    { <<1, 1, 1, 1, 1>>, <<1, 2, 3, 4, 51>>, <<3, 1, 2, 4, 5>>, <<1, 2, 3, 4, 52>> }

ScenarioBBuffer(tag, ts, idx) ==
    FullHeader \o Concat([k \in 1..5 |-> CompactText(tag, idx[k], ts[k])])

ScenarioB ==
    {ScenarioBBuffer(tag, ts, idx) :
        tag \in ScenarioBTags, ts \in ScenarioBTexts, idx \in ScenarioBIndices}

Buffers == FullBuffers \cup DetectBuffers \cup ScenarioA \cup DialogueBuffers \cup ScenarioB

(***************************************************************************)
(* Specification of decompile over the input buffers                       *)
(***************************************************************************)
Init ==
    /\ pc = "start"
    /\ data = NoData
    /\ format = ""
    /\ padded_entries = <<>>
    /\ compact_entries = <<>>
    /\ entries = <<>>
    /\ i = 0
    /\ combined = <<>>
    /\ result = <<>>
    /\ raised = FALSE

Next ==
    \/ \E bytes \in Buffers : ReadFile(bytes)
    \/ ReadFails
    \/ DetectFormat
    \/ DecompileDialogue
    \/ DecompileUnknown
    \/ ParsePadded
    \/ ParseCompact
    \/ Merge
    \/ Combine
    \/ ReturnFull

Spec == Init /\ [][Next]_vars

(***************************************************************************)
(* Properties of decompile                                                 *)
(***************************************************************************)
\* the entries of a list, as a set
Members(es) == {es[k] : k \in DOMAIN es}

IndicesOf(es) == {es[k].index : k \in DOMAIN es}

AfterMerge == pc \in {"merged", "combined", "done"}

\* indices that both strategies found, with texts that differ
ConflictIndices ==
    {k \in IndicesOf(padded_entries) \cap IndicesOf(compact_entries) :
        \E p \in Members(padded_entries), c \in Members(compact_entries) :
            p.index = k /\ c.index = k /\ p.text # c.text}

PaddedOnly == {p \in Members(padded_entries) : p.index \notin IndicesOf(compact_entries)}

\* C2: merge preference.  After the merge step, at every index that both
\* strategies found with different texts the merged list holds exactly the
\* compact entries of that index, so no padded entry of it; and every padded
\* entry whose index the compact strategy did not find is in the merged list
\* unchanged, once for each time the padded strategy returned it.
MergePrefersCompact ==
    AfterMerge =>
        /\ \A k \in ConflictIndices :
              {e \in Members(entries) : e.index = k}
                  = {c \in Members(compact_entries) : c.index = k}
        /\ \A p \in PaddedOnly :
              Cardinality({k \in DOMAIN entries : entries[k] = p})
                  = Cardinality({k \in DOMAIN padded_entries : padded_entries[k] = p})

MergeConflictMerged ==
    /\ pc = "merged"
    /\ ConflictIndices # {}
    /\ PaddedOnly # {}
    /\ \E p \in Members(padded_entries) : p.index \in ConflictIndices /\ p \notin Members(entries)

\* the strings of scenario A with the roster name at position k
NameAt(s, k) == is_speaker_name(s[k])

\* C5: scenario A.  A buffer with entry count 3 and three null-terminated
\* strings, one of them a roster name, decompiles to exactly one record whose
\* speaker is that name and whose text is the string after it.
ScenarioAYieldsOneDialogue ==
    \A s \in ScenarioATriples :
        (pc = "done" /\ data = ScenarioABuffer(s)) =>
            /\ format = "dialogue"
            /\ Len(result) = 1
            /\ \E k \in 1..2 :
                  NameAt(s, k) /\ result[1].speaker = s[k] /\ result[1].text = s[k + 1]

\* scenario B: the compact strategy extracted five fragments, the merged
\* list is these five, every one is a choice candidate
FiveCandidates ==
    /\ pc = "done"
    /\ format = "full"
    /\ Len(compact_entries) = 5
    /\ Len(entries) = 5
    /\ Members(entries) = Members(compact_entries)
    /\ \A k \in 1..5 : is_choice_candidate(compact_entries[k])

WithinWindowOfFirst ==
    \A k \in 1..5 :
        /\ compact_entries[k].index - compact_entries[1].index <= 50
        /\ compact_entries[1].index - compact_entries[k].index <= 50

WithinWindowOfSmallest ==
    \A j, k \in 1..5 : compact_entries[k].index - compact_entries[j].index <= 50

OneChoice(options) ==
    /\ Len(result) = 1
    /\ result[1].is_choice
    /\ result[1].choice_count = 5
    /\ result[1].choice_options = options
    /\ result[1].text = JoinChoices(options)

\* C6 as stated: five compact fragments within 50 of the first, each a choice
\* candidate, give exactly one Choice record whose options are the five
\* texts in file order, for every tag.
ScenarioBEveryTag ==
    (FiveCandidates /\ WithinWindowOfFirst) =>
        OneChoice([k \in 1..5 |-> compact_entries[k].text])

\* C6: scenario B.  Five compact fragments that carry one tag, 0x02, 0x03 or
\* 0x12, each a choice candidate, with indices within 50 of the smallest,
\* give exactly one Choice record: the merged list is in (index, offset)
\* order and the options are its five texts, trimmed, in that order.
ScenarioBOptionTags ==
    (/\ FiveCandidates
     /\ WithinWindowOfSmallest
     /\ \E tag \in {2, 3, 18} : \A k \in 1..5 : compact_entries[k].type = tag) =>
        /\ \A k \in 1..4 :
              \/ entries[k].index < entries[k + 1].index
              \/ entries[k].index = entries[k + 1].index
                 /\ entries[k].offset < entries[k + 1].offset
        /\ OneChoice([k \in 1..5 |-> Strip(entries[k].text)])
        /\ result[1].index = entries[1].index

ScenarioBUnsortedGrouped ==
    /\ FiveCandidates
    /\ WithinWindowOfSmallest
    /\ \A k \in 1..5 : compact_entries[k].type = 3
    /\ compact_entries[1].index > compact_entries[2].index
    /\ \E k \in 1..5 : entries[k].text # Strip(entries[k].text)
    /\ Len(result) = 1
    /\ result[1].is_choice

\* strings with a replacement character after a roster name, a UI word and
\* Japanese text
MarkedTexts ==
    {Text.Pearl \o <<65533>>, Text.Yes \o <<65533>>, <<65533>> \o Text.hai,
     Text.konnichiwa \o <<65533>> \o Text.Hello}

HasMark(text) == \E k \in DOMAIN text : text[k] = 65533

\* C8: the admission filter rejects every string that holds U+FFFD, and no
\* entry of the padded list, the compact list or the merged list holds one.
NoReplacementCharacter ==
    /\ \A t \in MarkedTexts : ~_is_valid_text(t)
    /\ \A e \in Members(padded_entries) \cup Members(compact_entries) \cup Members(entries) :
          ~HasMark(e.text)

\* the buffer holds the bytes of a fragment that do not decode
MarkedFragmentFiltered ==
    /\ pc = "merged"
    /\ \E p \in 1..Len(data) - 6 :
          SubSeq(data, p, p + 6) = EncodeUtf8(Text.hai) \o <<227>>
    /\ entries # <<>>
    /\ Len(entries) < 2

\* C9: detect_format returns 'full' exactly for a buffer that begins with
\* 'STCM2L', else 'dialogue' exactly for a buffer of at least 8 bytes whose
\* first four bytes read little-endian are below 10000, else 'unknown'; the
\* call changes nothing but the value it returns.
DetectFormatClassifies ==
    [][pc = "read" =>
          /\ format' = IF Len(data) >= 6 /\ SubSeq(data, 1, 6) = <<83, 84, 67, 77, 50, 76>>
                         THEN "full"
                       ELSE IF /\ Len(data) >= 8
                               /\ data[3] = 0
                               /\ data[4] = 0
                               /\ data[1] + 256 * data[2] < 10000
                         THEN "dialogue"
                       ELSE "unknown"
          /\ UNCHANGED <<data, padded_entries, compact_entries, entries, i, combined,
                         result, raised>>]_vars

CountAtCeilingUnknown ==
    /\ pc = "detected"
    /\ Len(data) >= 8
    /\ SubSeq(data, 1, 4) = <<16, 39, 0, 0>>
    /\ format = "unknown"

\* C10: decompile raises no exception for any buffer; a buffer classified
\* 'unknown' is given to the dialogue parser and its entries are returned; a
\* buffer shorter than a header, or one whose merged list is empty, gives the
\* empty list.
DecompileNeverRaises ==
    /\ raised = FALSE
    /\ pc = "done" =>
          /\ DOMAIN result = 1..Len(result)
          /\ format = "unknown" => result = decompile_dialogue_format(data).entries
          /\ (format # "full" /\ Len(data) < 8) => result = <<>>
          /\ (format = "full" /\ entries = <<>>) => result = <<>>

UnknownParsedAsDialogue ==
    /\ pc = "done"
    /\ format = "unknown"
    /\ result # <<>>
    /\ raised = FALSE

(***************************************************************************)
(* Specification of repeated passes of group_related_choices               *)
(*                                                                         *)
(* entries is the list given to the first pass, combined the list the last *)
(* pass returned, i the number of passes made.  The lists are in index     *)
(* order, as the list that line 805 passes is.                             *)
(***************************************************************************)
\* at most MaxUtterances utterances in a generated list
MaxUtterances == 4
\* at most MaxPasses passes
MaxPasses == 3

GroupIndices == {1, 40, 60}

GroupFragments ==
    {Fragment(f[1], f[2], index) :
        f \in {<<2, Text.Yes>>, <<4, Text.hai>>, <<4, Text.iie>>, <<4, Text.Hello>>},
        index \in GroupIndices}

\* clusters of more than MaxGroup candidates, and two clusters followed by
\* a single candidate
LongRuns ==
    { <<Fragment(4, Text.hai, 1), Fragment(4, Text.iie, 1), Fragment(4, Text.hai, 60),
        Fragment(2, Text.No, 60), Fragment(4, Text.iie, 120)>>,
      [k \in 1..6 |-> Fragment(4, Text.hai, 1)],
      [k \in 1..6 |-> Fragment(4, Text.hai, 1)] \o <<Fragment(4, Text.iie, 60)>>,
      [k \in 1..6 |-> Fragment(4, Text.hai, 1)]
          \o <<Fragment(4, Text.iie, 60), Fragment(2, Text.Yes, 60)>> }

Utterances ==
    {us \in UNION {[1..n -> GroupFragments] : n \in 0..MaxUtterances} :
        \A k \in 1..Len(us) - 1 : us[k].index <= us[k + 1].index}
    \cup LongRuns

InitGroup ==
    /\ pc = "ungrouped"
    /\ entries \in Utterances
    /\ combined = <<>>
    /\ i = 0
    /\ data = NoData
    /\ format = ""
    /\ padded_entries = <<>>
    /\ compact_entries = <<>>
    /\ result = <<>>
    /\ raised = FALSE

\* line 805: the pass over the assembled list
FirstPass ==
    /\ pc = "ungrouped"
    /\ combined' = group_related_choices(entries)
    /\ i' = 1
    /\ pc' = "grouped"
    /\ UNCHANGED <<data, format, padded_entries, compact_entries, entries, result, raised>>

\* group_related_choices applied to the list it returned
NextPass ==
    /\ pc = "grouped"
    /\ i < MaxPasses
    /\ combined' = group_related_choices(combined)
    /\ i' = i + 1
    /\ UNCHANGED <<pc, data, format, padded_entries, compact_entries, entries, result,
                   raised>>

NextGroup == FirstPass \/ NextPass

SpecGroup == InitGroup /\ [][NextGroup]_vars

AssembleTags == 0..19

FirstTexts ==
    {Text.said_hello, Text.said_hello_stop, Text.hai, Text.pen, Text.ed, Text.zara, Text.No,
     Text.iie}

SecondTexts ==
    {Text.world_left, Text.World_left, Text.Hello, Text.hai, Text.ed, Text.break_world,
     Text.bg01}

\* nothing, or a speaker fragment
Openings == {<<>>, <<Fragment(2, Text.Pearl, 1)>>}

\* nothing, or a fragment without quotes and without a final stop
Closings == {<<>>, <<Fragment(4, Text.Hello_open, 4)>>}

\* texts of the fragments of a speaker run
RunText ==
    [ \* 'Why<U+FF1F>'
      Why |-> <<87, 104, 121, 65311>>,
      \* 'Wait...'
      Wait |-> <<87, 97, 105, 116, 46, 46, 46>>,
      \* 'bg01.'
      bg01_stop |-> <<98, 103, 48, 49, 46>>,
      \* '#Name[2]'
      name2 |-> <<35, 78, 97, 109, 101, 91, 50, 93>> ]

\* fragments after a speaker: ending in a full-width question mark, in a
\* full stop, in an ellipsis, with an unclosed quote, a name marker,
\* bytecode without and with a final stop, the closing of a quote
RunFragments ==
    { <<4, RunText.Why>>, <<4, Text.Hello>>, <<4, RunText.Wait>>,
      <<4, Text.said_hello_stop>>, <<3, Text.name1>>, <<4, Text.bg01>>,
      <<4, RunText.bg01_stop>>, <<4, Text.world_left>> }

\* at most MaxRunLen fragments after the speaker
MaxRunLen == 3

\* a speaker fragment and the fragments of its run
RunInputs ==
    {<<Fragment(2, Text.Pearl, 1)>>
        \o [k \in 1..Len(s) |-> Fragment(s[k][1], s[k][2], k + 1)] :
        s \in UNION {[1..m -> RunFragments] : m \in 1..MaxRunLen}}

\* fragments around a name marker: two markers, a speaker, a choice word
\* and two dialogue lines
LookbackFragments ==
    { <<3, Text.name1>>, <<3, RunText.name2>>, <<2, Text.Pearl>>, <<1, Text.Yes>>,
      <<4, Text.Hello>>, <<4, Text.Night>> }

\* lists in which dialogue lines follow name markers
LookbackInputs ==
    {[k \in 1..Len(s) |-> Fragment(s[k][1], s[k][2], k)] :
        s \in UNION {[1..m -> LookbackFragments] : m \in 1..MaxRunLen}}

AssembleInputs ==
    {opening \o <<Fragment(first[1], first[2], 2)>> \o rest :
        opening \in Openings,
        first \in AssembleTags \X FirstTexts,
        rest \in {<<>>} \cup
                 {<<Fragment(second[1], second[2], 3)>> \o closing :
                      second \in AssembleTags \X SecondTexts, closing \in Closings}}
    \cup RunInputs \cup LookbackInputs

InitAssemble ==
    /\ pc = "assemble"
    /\ entries \in AssembleInputs
    /\ i = 1
    /\ combined = <<>>
    /\ result = <<>>
    /\ data = NoData
    /\ format = ""
    /\ padded_entries = <<>>
    /\ compact_entries = <<>>
    /\ raised = FALSE

\* line 341: the loop runs while the cursor is inside the list
AtEntry == pc = "assemble" /\ i <= Len(entries)

\* the step appends what it made and moves the cursor
Advance(step) ==
    /\ combined' = combined \o step.out
    /\ i' = step.i
    /\ UNCHANGED <<pc, data, format, padded_entries, compact_entries, entries, result,
                   raised>>

\* lines 352-508
SpeakerBranch ==
    AtEntry /\ IsSpeakerEntry(entries[i]) /\ Advance(SpeakerStep(entries, i))

\* lines 509-545
NonSpeakerBranch ==
    AtEntry /\ IsNonSpeakerEntry(entries[i]) /\ Advance(NonSpeakerStep(entries, i))

\* lines 548-562
NarrationBranch ==
    AtEntry /\ IsNarrationEntry(entries[i]) /\ Advance(NarrationStep(entries, i))

\* lines 568-583
ChoiceWordBranch ==
    AtEntry /\ IsChoiceWordEntry(entries[i]) /\ Advance(ChoiceWordStep(entries, i))

\* lines 586-672
Type07Branch ==
    AtEntry /\ IsType07Entry(entries[i]) /\ Advance(Type07Step(entries, i))

\* lines 679-785
DialogueBranch ==
    AtEntry /\ IsDialogueEntry(entries[i]) /\ Advance(DialogueStep(entries, i))

\* lines 788-802
UnknownBranch ==
    AtEntry /\ IsUnknownEntry(entries[i]) /\ Advance(UnknownStep(entries, i))

\* lines 804-807: the loop is over; the choices are grouped and returned
GroupChoices ==
    /\ pc = "assemble"
    /\ i > Len(entries)
    /\ result' = group_related_choices(combined)
    /\ pc' = "assembled"
    /\ UNCHANGED <<data, format, padded_entries, compact_entries, entries, i, combined,
                   raised>>

NextAssemble ==
    \/ SpeakerBranch
    \/ NonSpeakerBranch
    \/ NarrationBranch
    \/ ChoiceWordBranch
    \/ Type07Branch
    \/ DialogueBranch
    \/ UnknownBranch
    \/ GroupChoices

SpecAssemble == InitAssemble /\ [][NextAssemble]_vars

\* the loop and the grouping give what the function gives
AssembleAgrees == pc = "assembled" => result = combine_dialogue_entries(entries)

(***************************************************************************)
(* Properties of the main loop                                             *)
(***************************************************************************)
Quotes(text) == Count(text, 34)

OddQuotes(text) == Quotes(text) % 2 = 1

\* the tags 0x04..0x11 of the dialogue-continuation family
ContinuationTags == 4..17

\* the utterances of the returned list that hold both texts
HoldingBoth(a, b) ==
    {k \in DOMAIN result : Contains(result[k].text, a) /\ Contains(result[k].text, b)}

\* adjacent fragments k, k + 1 with an opening quote in the first and the
\* closing quote in the second
QuotePairAt(k) ==
    /\ k + 1 <= Len(entries)
    /\ entries[k].type \in ContinuationTags
    /\ entries[k + 1].type \in ContinuationTags
    /\ OddQuotes(entries[k].text)
    /\ OddQuotes(entries[k + 1].text)

RunAdmits(e) ==
    /\ e.type \in {1, 3, 4, 5, 6, 8, 9, 10, 11, 12, 13, 14, 15, 16, 17}
    /\ ~is_name_indicator(e.text)
    /\ ~StartsWith(Strip(e.text), <<34, 45, 45>>)

\* the first fragment ends in terminal punctuation and the second, of tag
\* 0x03, 0x04, 0x06 or 0x0F, closes the quote
ClosedByLookahead(a, b) ==
    /\ RunAdmits(a)
    /\ EndsWithPunct(a.text)
    /\ OddQuotes(a.text)
    /\ b.type \in {3, 4, 6, 15}
    /\ OddQuotes(b.text)

\* the first fragment, Latin text that is not bytecode, does not end in
\* terminal punctuation and the second ends in it and closes the quote
ClosedByTerminal(a, b) ==
    /\ RunAdmits(a)
    /\ ~EndsWithPunct(a.text)
    /\ ~is_bytecode(a.text)
    /\ ~HasJapanese(a.text)
    /\ OddQuotes(a.text)
    /\ RunAdmits(b)
    /\ EndsWithPunct(b.text)
    /\ OddQuotes(b.text)

ScriptOnly(text) == HasJapanese(text) /\ AsciiAlphaCount(text) = 0

\* more than 2 Latin letters and no Japanese script
LatinOnly(text) == AsciiAlphaCount(text) > 2 /\ ~HasJapanese(text)

\* C4: language boundary.  A continuation-tag fragment of Japanese script
\* without Latin letters and the continuation-tag fragment of more than 2
\* Latin letters without script that follows it are never in one utterance of
\* the returned list.
LanguageBoundaryKept ==
    pc = "assembled" =>
        \A k \in 1..Len(entries) - 1 :
            (/\ entries[k].type \in ContinuationTags
             /\ entries[k + 1].type \in ContinuationTags
             /\ ScriptOnly(entries[k].text)
             /\ LatinOnly(entries[k + 1].text))
            => HoldingBoth(entries[k].text, entries[k + 1].text) = {}

\* exactly 2 characters of kana or kanji (U+3040..U+9FFF)
TwoScriptChars(text) ==
    Len(text) = 2 /\ \A k \in 1..2 : text[k] >= 12352 /\ text[k] <= 40959

\* exactly 2 Latin letters
TwoLatinChars(text) == Len(text) = 2 /\ \A k \in 1..2 : IsAsciiLetter(text[k])

\* C7 as stated: alone in the list, a fragment of 2 Japanese characters is in
\* the returned list and a fragment of 2 Latin letters is not, whichever tag
\* it carries.
TwoCharRuleEveryTag ==
    (pc = "assembled" /\ Len(entries) = 1) =>
        /\ TwoScriptChars(entries[1].text) =>
              \E k \in DOMAIN result : Contains(result[k].text, entries[1].text)
        /\ TwoLatinChars(entries[1].text) => result = <<>>

\* C7: the two-character boundary.  When the main loop is at a fragment of
\* exactly 2 kana or kanji characters, the step appends one utterance that
\* holds its text, for every tag but 0x01 and but a roster speaker name under
\* tag 0x02 or 0x03; when it is at a fragment of exactly 2 Latin letters
\* that carries a tag of 0x04..0x06 or 0x08..0x11 or a tag outside
\* 0x01..0x12, the step appends nothing and moves to the next fragment.
TwoCharRule ==
    [][(pc = "assemble" /\ i <= Len(entries))
       => /\ (/\ TwoScriptChars(entries[i].text)
              /\ entries[i].type # 1
              /\ ~(entries[i].type \in {2, 3} /\ is_speaker_name(entries[i].text)))
             => /\ Len(combined') = Len(combined) + 1
                /\ Contains(combined'[Len(combined')].text, entries[i].text)
          /\ (/\ TwoLatinChars(entries[i].text)
              /\ entries[i].type \notin {1, 2, 3, 7, 18})
             => /\ combined' = combined
                /\ i' = i + 1]_vars

\* a fragment of 2 Japanese characters was kept and the fragment of 2 Latin
\* letters after it was dropped
ScriptKeptLatinDropped ==
    /\ pc = "assemble"
    /\ i = 3
    /\ Len(entries) = 2
    /\ entries[1].type = 4
    /\ entries[1].text = Text.hai
    /\ entries[2].type = 19
    /\ entries[2].text = Text.ed
    /\ Len(combined) = 1
    /\ combined[1].text = Text.hai

(***************************************************************************)
(* Properties of the two extraction strategies                             *)
(***************************************************************************)
ExtractedPadded == pc \in {"padded", "compact", "merged", "combined", "done"} /\ format = "full"
ExtractedCompact == pc \in {"compact", "merged", "combined", "done"} /\ format = "full"

\* the header at offset h passes the checks of the compact strategy on type,
\* index and size (no placeholder size)
CompactHeaderAt(bytes, h) ==
    /\ h + HeaderLen <= Len(bytes)
    /\ LE32(bytes, h) \in CompactTypes \ {PlaceholderSizeType}
    /\ LE32(bytes, h + 4) <= MaxEntryIndex
    /\ LE32(bytes, h + 8) >= MinCompactSize
    /\ LE32(bytes, h + 8) <= MaxEntrySize

\* the same for the padded strategy: four null bytes at p, the header after
\* them
PaddedHeaderAt(bytes, p) ==
    /\ p < Len(bytes) - PaddedTail
    /\ FourNulls(bytes, p)
    /\ ~FourNulls(bytes, p + 4)
    /\ LE32(bytes, p + 4) \in PaddedTypes \ {PlaceholderSizeType}
    /\ LE32(bytes, p + 8) <= MaxEntryIndex
    /\ LE32(bytes, p + 12) >= 1
    /\ LE32(bytes, p + 12) <= MaxEntrySize

\* a well-formed entry: the header passes, the text lies in the buffer and
\* passes the text filter
WellFormedCompactAt(bytes, h) ==
    /\ CompactHeaderAt(bytes, h)
    /\ h + HeaderLen + LE32(bytes, h + 8) <= Len(bytes)
    /\ _is_valid_text(EntryText(bytes, h + HeaderLen, h + HeaderLen + LE32(bytes, h + 8)))

WellFormedPaddedAt(bytes, p) ==
    /\ PaddedHeaderAt(bytes, p)
    /\ p + 4 + HeaderLen + LE32(bytes, p + 12) <= Len(bytes)
    /\ _is_valid_text(EntryText(bytes, p + 4 + HeaderLen,
                                p + 4 + HeaderLen + LE32(bytes, p + 12)))

\* a header that passes but whose declared size runs past the end
OverrunCompactAt(bytes, h) ==
    CompactHeaderAt(bytes, h) /\ h + HeaderLen + LE32(bytes, h + 8) > Len(bytes)

OverrunPaddedAt(bytes, p) ==
    PaddedHeaderAt(bytes, p) /\ p + 4 + HeaderLen + LE32(bytes, p + 12) > Len(bytes)

\* offset p lies in the bytes of an entry the strategy returned (lead is the
\* number of padding bytes before the header)
InReturnedSpan(es, p, lead) ==
    \E k \in DOMAIN es :
        es[k].offset < p /\ p < es[k].offset + lead + HeaderLen + es[k].size

Offsets(es) == {es[k].offset : k \in DOMAIN es}

\* C11: a failed validation never ends a scan.  After a header whose declared
\* size runs past the end of the buffer, every well-formed entry at a later
\* offset that is not inside a returned entry is returned: by the compact
\* strategy for compact entries, by the padded strategy for padded ones.
ScanNeverAborts ==
    /\ ExtractedCompact =>
          \A q \in 0..(Len(data) - 1), p \in 0..(Len(data) - 1) :
              (/\ q < p
               /\ OverrunCompactAt(data, q)
               /\ WellFormedCompactAt(data, p)
               /\ ~InReturnedSpan(compact_entries, p, 0))
              => p \in Offsets(compact_entries)
    /\ ExtractedPadded =>
          \A q \in 0..(Len(data) - 1), p \in 0..(Len(data) - 1) :
              (/\ q < p
               /\ OverrunPaddedAt(data, q)
               /\ WellFormedPaddedAt(data, p)
               /\ ~InReturnedSpan(padded_entries, p, 4))
              => p \in Offsets(padded_entries)

(***************************************************************************)
(* _parse_legacy_utf8: the scan for null-terminated strings                *)
(***************************************************************************)
\* b'GLOBAL_DATA' and b'CODE_START_'
GLOBAL_DATA == <<71, 76, 79, 66, 65, 76, 95, 68, 65, 84, 65>>
CODE_START == <<67, 79, 68, 69, 95, 83, 84, 65, 82, 84, 95>>
\* the offset after the header, and the bytes skipped from the start of a
\* section name
CodeStartDefault == 44
SectionSkip == 12
\* the scan runs while pos < len - LegacyTail and keeps strings of at least
\* MinLegacyLen characters
LegacyTail == 4
MinLegacyLen == 2

\* bytes.find(needle): the first offset the needle occurs at, or -1
Find(bytes, needle) ==
    LET hits == {k \in 0..(Len(bytes) - Len(needle)) :
                    SubSeq(bytes, k + 1, k + Len(needle)) = needle}
    IN  IF hits = {} THEN -1 ELSE CHOOSE k \in hits : \A m \in hits : k <= m

_find_code_start(bytes) ==
    LET global_data_offset == Find(bytes, GLOBAL_DATA)
        code_start_offset == Find(bytes, CODE_START)
    IN  IF code_start_offset > 0 THEN code_start_offset + SectionSkip
        ELSE IF global_data_offset > 0 THEN global_data_offset + SectionSkip
        ELSE CodeStartDefault

\* the offset of the first null byte from start on, or the end of the data
RECURSIVE StringEnd(_, _)
StringEnd(bytes, end) ==
    IF end < Len(bytes) /\ bytes[end + 1] # 0 THEN StringEnd(bytes, end + 1) ELSE end

\* the decoded string and the number of bytes consumed
decode_utf8_string(bytes, start) ==
    LET end == StringEnd(bytes, start)
    IN  [text |-> DecodeUtf8(Slice(bytes, start, end)), consumed |-> end - start + 1]

\* the while loop of _parse_legacy_utf8 from cursor p on; the entries carry
\* no offset, which the sort of decompile_full_format reads as 0
RECURSIVE LegacyFrom(_, _, _)
LegacyFrom(bytes, p, acc) ==
    IF ~(p < Len(bytes) - LegacyTail) THEN acc
    ELSE IF bytes[p + 1] = 0 \/ bytes[p + 1] = 255 THEN LegacyFrom(bytes, p + 1, acc)
    ELSE LET d == decode_utf8_string(bytes, p)
             entry_type == IF is_speaker_name(d.text) THEN 2 ELSE 4
         IN  IF Len(d.text) >= MinLegacyLen
             THEN LegacyFrom(bytes, p + d.consumed,
                             Append(acc, RawEntry(Len(acc), entry_type, d.text,
                                                  Len(EncodeUtf8(d.text)), 0)))
             ELSE LegacyFrom(bytes, p + 1, acc)

_parse_legacy_utf8(bytes) == LegacyFrom(bytes, _find_code_start(bytes), <<>>)

\* C12: the legacy scan as fallback.  When decompile has finished a buffer
\* detected as the full layout for which the padded and the compact strategy
\* both returned no entry, what it returns is the assembled output of the
\* candidates of the legacy scan, sorted and filtered as the merged list is.
LegacyFallbackRuns ==
    (/\ pc = "done"
     /\ format = "full"
     /\ padded_entries = <<>>
     /\ compact_entries = <<>>)
    => result = combine_dialogue_entries(MergeEntries(<<>>, _parse_legacy_utf8(data)))

(***************************************************************************)
(* Further properties of the main loop                                     *)
(***************************************************************************)
\* the utterances appended by the loop that hold the text
HoldersOf(text) == {u \in DOMAIN combined : Contains(combined[u].text, text)}

\* no other fragment of the list holds the text of fragment k
OwnText(k) == \A m \in DOMAIN entries : m # k => ~Contains(entries[m].text, entries[k].text)

\* C13: single-pass consumption.  When the loop is over, the text of every
\* fragment that no other fragment's text holds is in at most one of the
\* utterances the loop appended.
SinglePassConsumption ==
    pc = "assembled" =>
        \A k \in DOMAIN entries : OwnText(k) => Cardinality(HoldersOf(entries[k].text)) <= 1

ChoiceWordOnlyAlone ==
    pc = "assembled" =>
        \A k \in DOMAIN entries :
            (entries[k].type = 1 /\ OwnText(k)) =>
                IF Lower(entries[k].text) \in ENGLISH_CHOICE_WORDS
                THEN /\ HoldersOf(entries[k].text) # {}
                     /\ \A u \in HoldersOf(entries[k].text) :
                            combined[u] = Utterance(entries[k].index, entries[k].text, <<>>, 2)
                ELSE HoldersOf(entries[k].text) = {}

(***************************************************************************)
(* Further properties of group_related_choices                             *)
(***************************************************************************)
\* the clusters the pass formed over the list it was given
Clusters == ChoiceGroups(entries, CandidatePositions(entries), 1)

\* how often the record is in the list
Occurrences(es, e) == Cardinality({k \in DOMAIN es : es[k] = e})

\* the record is the Choice built from the candidates at the positions of
\* run, a sequence of positions of the list given to the pass
ChoiceBuiltFrom(u, run) ==
    /\ Len(run) >= 2
    /\ Len(run) <= 5
    /\ \A k \in DOMAIN run :
          /\ is_choice_candidate(entries[run[k]])
          /\ entries[run[k]].index - entries[run[1]].index <= 50
          /\ entries[run[k]].index >= entries[run[1]].index
          /\ u.choice_options[k] = Strip(entries[run[k]].text)
    /\ u.choice_count = Len(run)
    /\ Len(u.choice_options) = Len(run)
    /\ u.text = JoinChoices(u.choice_options)
    /\ u.speaker = <<>>
    /\ u.index = entries[run[1]].index

WrittenWords ==
    { Text.Yes, Text.No, Text.OK, Text.Cancel, Text.Close,
      <<65, 67, 67, 69, 80, 84>>,                    \* 'ACCEPT'
      <<100, 101, 99, 108, 105, 110, 101>>,          \* 'decline'
      <<32>> \o Text.Yes \o <<32>>,                  \* ' Yes '
      <<110, 79, 10>>,                               \* 'nO\n'
      <<9, 111, 107>> }                              \* '\tok'

\* texts that are no UI word: Latin, Japanese, a background identifier, a
\* UI word inside a sentence
OtherTexts ==
    { Text.ed, Text.hai, Text.iie, Text.bg01, Text.Hello, Text.Pearl,
      Text.Yes \o <<46>>,                            \* 'Yes.'
      Text.No \o <<32>> \o Text.OK }                 \* 'No OK'

ClassifyTags == 0..19

InitClassify ==
    /\ pc = "unclassified"
    /\ entries \in {<<Fragment(tag, text, 1)>> :
                        tag \in ClassifyTags, text \in WrittenWords \cup OtherTexts}
    /\ result = <<>>
    /\ i = 0
    /\ combined = <<>>
    /\ data = NoData
    /\ format = ""
    /\ padded_entries = <<>>
    /\ compact_entries = <<>>
    /\ raised = FALSE

\* a call of is_bytecode with the text of the fragment
IsBytecode ==
    /\ pc = "unclassified"
    /\ result' = <<is_bytecode(entries[1].text)>>
    /\ pc' = "bytecode_checked"
    /\ UNCHANGED <<data, format, padded_entries, compact_entries, entries, i, combined,
                   raised>>

\* a call of is_choice_candidate with the fragment
IsChoiceCandidate ==
    /\ pc = "bytecode_checked"
    /\ result' = Append(result, is_choice_candidate(entries[1]))
    /\ pc' = "classified"
    /\ UNCHANGED <<data, format, padded_entries, compact_entries, entries, i, combined,
                   raised>>

NextClassify == IsBytecode \/ IsChoiceCandidate

SpecClassify == InitClassify /\ [][NextClassify]_vars

\* the seven UI words
UIWords ==
    { <<121, 101, 115>>, <<110, 111>>, <<111, 107>>, <<99, 97, 110, 99, 101, 108>>,
      <<97, 99, 99, 101, 112, 116>>, <<100, 101, 99, 108, 105, 110, 101>>,
      <<99, 108, 111, 115, 101>> }

IsUIWord(text) == Lower(Strip(text)) \in UIWords

\* C17 as stated: a UI word is never bytecode and is a choice candidate
\* under every tag.
UIWordEveryTag ==
    (pc = "classified" /\ IsUIWord(entries[1].text)) =>
        result = <<FALSE, TRUE>>

\* C17: UI words.  For a text whose trimmed, lower-cased form is a UI word,
\* is_bytecode returns false under every tag, and is_choice_candidate
\* returns true when the fragment's tag is 0x02 and false under every other
\* tag.
UIWordUnderChoiceTag ==
    (pc = "classified" /\ IsUIWord(entries[1].text)) =>
        /\ result[1] = FALSE
        /\ result[2] = (entries[1].type = 2)

\* a UI word written with blanks was classified under tag 0x02 and under
\* another tag
UIWordClassified ==
    /\ pc = "classified"
    /\ entries[1].text = <<32>> \o Text.Yes \o <<32>>
    /\ \/ entries[1].type = 2 /\ result = <<FALSE, TRUE>>
       \/ entries[1].type = 4 /\ result = <<FALSE, FALSE>>

(***************************************************************************)
(* Further properties of the extraction and the merge                      *)
(***************************************************************************)
\* every entry of the list passes the text filter
AllValid(es) == \A k \in DOMAIN es : _is_valid_text(es[k].text)

\* each entry starts at or after the end of the bytes of the entry before
\* it: its offset, lead padding bytes at least, the header and the text
ForwardOnly(es, lead) ==
    \A k \in 1..(Len(es) - 1) :
        /\ es[k].offset < es[k + 1].offset
        /\ es[k].offset + lead + HeaderLen + es[k].size <= es[k + 1].offset

\* C18: the lists of the strategies.  In the list the padded strategy
\* returned and in the list the compact strategy returned the offsets
\* increase strictly, no entry starts inside the bytes of the entry before
\* it, and every entry passes _is_valid_text.
StrategyOutputOrdered ==
    /\ ExtractedPadded => ForwardOnly(padded_entries, 4) /\ AllValid(padded_entries)
    /\ ExtractedCompact => ForwardOnly(compact_entries, 0) /\ AllValid(compact_entries)

\* both strategies returned two entries or more from one buffer
TwoEntriesEachStrategy ==
    /\ pc = "compact"
    /\ Len(padded_entries) >= 2
    /\ Len(compact_entries) >= 2

\* C19: the merged list.  The list the merge hands to the assembler is in
\* non-decreasing order of index, entries with the same index are in
\* strictly increasing order of file offset, and every entry passes
\* _is_valid_text.
MergedListSorted ==
    (AfterMerge /\ format = "full") =>
        /\ \A k \in 1..(Len(entries) - 1) :
              \/ entries[k].index < entries[k + 1].index
              \/ /\ entries[k].index = entries[k + 1].index
                 /\ entries[k].offset < entries[k + 1].offset
        /\ AllValid(entries)

\* the merge put entries into index order that the file holds in another
\* order, and ordered two entries of one index by their offsets
MergeReordered ==
    /\ pc = "merged"
    /\ Len(entries) >= 3
    /\ \E j, k \in DOMAIN entries : j < k /\ entries[j].offset > entries[k].offset
    /\ \E j, k \in DOMAIN entries : j < k /\ entries[j].index = entries[k].index

\* the fragment can open the run of a speaker: a continuation tag, no
\* bytecode, no name marker, not starting with the break marker
OpensRun(e) ==
    /\ e.type \in ContinuationTags
    /\ ~is_bytecode(e.text)
    /\ ~is_name_indicator(e.text)
    /\ ~StartsWith(Strip(e.text), Markers.BreakMarker)

\* C20: speaker attribution.  When the list starts with a speaker-name
\* fragment tagged 0x02 or 0x03 and the fragment after it can open the run,
\* the loop appends an utterance whose speaker is that name and whose text
\* begins with the text of that fragment, whatever its script and its last
\* character.
SpeakerAttributed ==
    (/\ pc = "assembled"
     /\ Len(entries) >= 2
     /\ IsSpeakerEntry(entries[1])
     /\ OpensRun(entries[2]))
    => \E u \in DOMAIN combined :
           /\ combined[u].speaker = entries[1].text
           /\ StartsWith(combined[u].text, entries[2].text)

(***************************************************************************)
(* Properties of the speaker run                                           *)
(***************************************************************************)
\* the six terminal marks . ! ? U+3002 U+FF01 U+FF1F
SentenceMarks == {46, 33, 63, 12290, 65281, 65311}

\* the text ends, trailing whitespace removed, in a terminal mark that is
\* not part of an ellipsis
EndsSentence(text) ==
    /\ RStrip(text) # <<>>
    /\ RStrip(text)[Len(RStrip(text))] \in SentenceMarks
    /\ ~EndsWith(RStrip(text), Markers.Ellipsis)
    /\ ~EndsWith(RStrip(text), Markers.JpEllipsis)

\* the main loop is at a speaker fragment and the fragment after it is one
\* the run examines: a run tag, no name marker, no break marker
RunExamines(k) ==
    /\ pc = "assemble"
    /\ i = k
    /\ k + 1 <= Len(entries)
    /\ IsSpeakerEntry(entries[k])
    /\ entries[k + 1].type \in SpeakerRunTypes
    /\ ~is_name_indicator(entries[k + 1].text)
    /\ ~StartsWith(Strip(entries[k + 1].text), Markers.BreakMarker)

\* C21: closure on terminal punctuation.  When the first fragment of a
\* speaker run ends in one of the six terminal marks, not in an ellipsis,
\* and holds an even number of double quotes, the step consumes it alone:
\* it appends one utterance of the speaker with that text and leaves the
\* cursor on the fragment after it.
RunClosesOnTerminalMark ==
    [][\A k \in DOMAIN entries :
          (/\ RunExamines(k)
           /\ EndsSentence(entries[k + 1].text)
           /\ ~OddQuotes(entries[k + 1].text))
          => /\ i' = k + 2
             /\ combined' = Append(combined,
                                   Utterance(entries[k].index, entries[k + 1].text,
                                             entries[k].text, 4))]_vars


\* the utterances the step at hand appends to combined
Appended == {combined'[u] : u \in (Len(combined) + 1)..Len(combined')}

\* the main loop is at the speaker fragment k
AtSpeaker(k) == pc = "assemble" /\ i = k /\ IsSpeakerEntry(entries[k])

\* C22: a speaker run never consumes a name marker.  The utterance a
\* speaker step appends does not contain the text of any fragment of the
\* list that matches #Name[<digits>], the unclosed-quote lookahead included.
RunExcludesNameMarkers ==
    [][\A k \in DOMAIN entries :
          AtSpeaker(k)
          => \A u \in Appended : \A m \in DOMAIN entries :
                 is_name_indicator(entries[m].text)
                 => ~Contains(u.text, entries[m].text)]_vars

\* C23: bytecode is never kept in a speaker run.  The utterance a speaker
\* step appends does not contain the text of any fragment after the speaker
\* for which is_bytecode is true, whether the fragment ends in terminal
\* punctuation or not, the unclosed-quote lookahead included.
RunExcludesBytecode ==
    [][\A k \in DOMAIN entries :
          AtSpeaker(k)
          => \A u \in Appended : \A m \in DOMAIN entries :
                 (m > k /\ is_bytecode(entries[m].text))
                 => ~Contains(u.text, entries[m].text)]_vars


(***************************************************************************)
(* Properties of the name-marker lookback                                  *)
(***************************************************************************)
\* the name markers before k that no continuation-family fragment
\* separates from k
MarkersInReach(es, k) ==
    {m \in 1..(k - 1) :
        /\ is_name_indicator(es[m].text)
        /\ \A n \in (m + 1)..(k - 1) :
               is_name_indicator(es[n].text) \/ es[n].type \notin DialogueTypes}

\* the text of the marker closest before k, <<>> when none is in reach
NearestNameMarker(es, k) ==
    IF MarkersInReach(es, k) = {} THEN <<>>
    ELSE es[CHOOSE m \in MarkersInReach(es, k) :
                \A n \in MarkersInReach(es, k) : n <= m].text

\* C24: name-marker lookback.  The utterance a dialogue step appends has as
\* speaker the name marker closest before the fragment, the later one of
\* two markers with no continuation fragment between them, and no speaker
\* when a continuation-family fragment comes before any marker; the text is
\* prefixed with the label on a line of its own.
LabelIsNearestMarker ==
    [][\A k \in DOMAIN entries :
          (pc = "assemble" /\ i = k /\ IsDialogueEntry(entries[k]))
          => \A u \in Appended :
                 /\ u.speaker = NearestNameMarker(entries, k)
                 /\ u.speaker # <<>> => StartsWith(u.text, u.speaker \o <<10>>)]_vars


(***************************************************************************)
(* Specification of the continuation test on two texts                     *)
(*                                                                         *)
(* entries holds the earlier and the later fragment, result what           *)
(* should_combine_entries returned for them.                               *)
(***************************************************************************)
PairText ==
    [ \* 'and left'
      and_left |-> <<97, 110, 100, 32, 108, 101, 102, 116>>,
      \* 'No [select]'
      No_note |-> <<78, 111, 32, 91, 115, 101, 108, 101, 99, 116, 93>>,
      \* '<U+3044><U+3044><U+3048> [select]'
      iie_note |-> <<12356, 12356, 12360, 32, 91, 115, 101, 108, 101, 99, 116, 93>>,
      \* 'Oh. (I mean'
      Oh_paren |-> <<79, 104, 46, 32, 40, 73, 32, 109, 101, 97, 110>>,
      \* 'Mr. Smith went'
      Mr_Smith |-> <<77, 114, 46, 32, 83, 109, 105, 116, 104, 32, 119, 101, 110, 116>>,
      \* '<U+306F><U+3044> Hello'
      hai_Hello |-> <<12399, 12356, 32, 72, 101, 108, 108, 111>>,
      \* '<U+306F><U+3044><U+3001><U+3001>'
      hai_commas |-> <<12399, 12356, 12289, 12289>> ]

\* Latin and Japanese texts with and without a final stop, with a stop
\* inside, with an open parenthesis, with a bracketed note, starting in
\* lower case and with an opening quote, bytecode and a name marker
PairTexts ==
    { Text.Hello_open, Text.Hello, Text.Night, Text.ed, PairText.and_left,
      Text.kangaeru, Text.konnichiwa, Text.hai, Text.quoted_hai, Text.bg01,
      Text.name1, PairText.No_note, PairText.iie_note, PairText.Oh_paren,
      PairText.Mr_Smith, PairText.hai_Hello, PairText.hai_commas }

InitCombine ==
    /\ pc = "paired"
    /\ entries \in {<<Fragment(4, prev_text, 1), Fragment(4, curr_text, 2)>> :
                        prev_text \in PairTexts, curr_text \in PairTexts}
    /\ result = <<>>
    /\ i = 0
    /\ combined = <<>>
    /\ data = NoData
    /\ format = ""
    /\ padded_entries = <<>>
    /\ compact_entries = <<>>
    /\ raised = FALSE

\* a call of should_combine_entries with the two fragments
ShouldCombine ==
    /\ pc = "paired"
    /\ result' = <<should_combine_entries(entries[1].text, entries[2].text)>>
    /\ pc' = "decided"
    /\ UNCHANGED <<data, format, padded_entries, compact_entries, entries, i, combined,
                   raised>>

NextCombine == ShouldCombine

SpecCombine == InitCombine /\ [][NextCombine]_vars

\* the text has Japanese content
JapaneseSide(text) == HasJapanese(text)

\* the text is Latin: more than 2 Latin letters and no Japanese
LatinSide(text) == LatinOnly(text)

\* the earlier text holds ' [' and ends with ']'
HasTrailingNote(prev_text) ==
    Contains(prev_text, Markers.SpaceBracket) /\ EndsWith(prev_text, <<93>>)

\* one of the disqualifiers applies to the pair
Disqualified(prev_text, curr_text) ==
    \/ is_bytecode(curr_text)
    \/ is_name_indicator(curr_text)
    \/ HasTrailingNote(prev_text)
    \/ HasJapanese(curr_text) /\ AlphaCount(curr_text) > LatinThreshold
    \/ JapaneseSide(prev_text) /\ LatinSide(curr_text)
    \/ LatinSide(prev_text) /\ JapaneseSide(curr_text)

\* one of the continuation signals is present: the earlier text is longer
\* than MinPrevLen and does not end in terminal punctuation, the later text
\* starts with a lowercase letter or an opener, or the earlier text has more
\* opening than closing parentheses
ContinuationSignal(prev_text, curr_text) ==
    \/ /\ Len(prev_text) > MinPrevLen
       /\ prev_text[Len(prev_text)] \notin CombineTerminalChars
    \/ /\ curr_text # <<>>
       /\ IsAsciiLower(curr_text[1]) \/ curr_text[1] \in CombineOpeners
    \/ Count(prev_text, 40) + Count(prev_text, 65288)
           > Count(prev_text, 41) + Count(prev_text, 65289)

\* C25: should_combine_entries never combines across a disqualifier.  It
\* returns false when the later text is bytecode or a name marker, when the
\* earlier text holds ' [' and ends with ']', when the later text alone has
\* Japanese content and more than two alphabetic characters, and when the
\* two texts lie on opposite sides of a Japanese/Latin boundary, whatever
\* the punctuation, case and parentheses.
DisqualifierRefuses ==
    (pc = "decided" /\ Disqualified(entries[1].text, entries[2].text))
    => result = <<FALSE>>

\* a pair with every continuation signal and a disqualifier was refused,
\* and a pair without disqualifier was combined
SignalledPairRefused ==
    /\ pc = "decided"
    /\ result = <<FALSE>>
    /\ Disqualified(entries[1].text, entries[2].text)
    /\ Len(entries[1].text) > MinPrevLen
    /\ \A k \in DOMAIN entries[1].text : entries[1].text[k] \notin CombineTerminalChars
    /\ IsAsciiLower(entries[2].text[1])
    /\ JapaneseSide(entries[1].text) /\ LatinSide(entries[2].text)

\* C26: should_combine_entries combines when no disqualifier applies and a
\* continuation signal is present.  For two texts of the same language,
\* both Japanese only or both Latin only, the later neither bytecode nor a
\* name marker, the earlier without trailing bracketed note, it returns true
\* when one of the three continuation signals is present; two Japanese-only
\* texts, the first longer than three characters and without terminal
\* punctuation, combine.
SignalCombines ==
    (/\ pc = "decided"
     /\ ~is_bytecode(entries[2].text)
     /\ ~is_name_indicator(entries[2].text)
     /\ ~HasTrailingNote(entries[1].text)
     /\ \/ ScriptOnly(entries[1].text) /\ ScriptOnly(entries[2].text)
        \/ LatinOnly(entries[1].text) /\ LatinOnly(entries[2].text)
     /\ ContinuationSignal(entries[1].text, entries[2].text))
    => result = <<TRUE>>


(***************************************************************************)
(* Properties of the resynchronisation of the padded strategy              *)
(***************************************************************************)
\* the offset after the padded entry at p
PaddedEnd(bytes, p) == p + 4 + HeaderLen + LE32(bytes, p + 12)

\* C27: padded resynchronisation loses no entry.  When two well-formed
\* padded entries lie back to back and the padded strategy returned the
\* first, it returned the second as well, whatever the tag of the second
\* among the tags the strategy accepts.
ResyncLosesNoEntry ==
    ExtractedPadded =>
        \A p \in 0..(Len(data) - 1) :
            (/\ WellFormedPaddedAt(data, p)
             /\ PaddedEnd(data, p) < Len(data)
             /\ WellFormedPaddedAt(data, PaddedEnd(data, p))
             /\ p \in Offsets(padded_entries))
            => PaddedEnd(data, p) \in Offsets(padded_entries)


(***************************************************************************)
(* Specification of group_related_choices over lists in any order          *)
(*                                                                         *)
(* entries is the list given to the first pass, combined the list the last *)
(* pass returned, i the number of passes made.                             *)
(***************************************************************************)
AnyOrderIndices == {1, 60}

AnyOrderFragments ==
    {Fragment(f[1], f[2], index) :
        f \in {<<2, Text.Yes>>, <<4, Text.hai_spaced>>, <<4, Text.Hello>>},
        index \in AnyOrderIndices}

AnyOrderUtterances == UNION {[1..n -> AnyOrderFragments] : n \in 0..MaxUtterances}

InitGroupAny ==
    /\ pc = "ungrouped"
    /\ entries \in AnyOrderUtterances
    /\ combined = <<>>
    /\ i = 0
    /\ data = NoData
    /\ format = ""
    /\ padded_entries = <<>>
    /\ compact_entries = <<>>
    /\ result = <<>>
    /\ raised = FALSE

SpecGroupAny == InitGroupAny /\ [][NextGroup]_vars

\* the list is in non-decreasing order of index
InIndexOrder(es) == \A k \in 1..(Len(es) - 1) : es[k].index <= es[k + 1].index

\* the utterances of the list that are in no converted cluster, in list
\* order
NonMembers(es) ==
    LET cp == CandidatePositions(es)
        converted == SelectSeq(ChoiceGroups(es, cp, 1), IsConverted)
        removed == UNION {{converted[g][k] : k \in 1..Len(converted[g])} :
                             g \in 1..Len(converted)}
        kept == SelectSeq([k \in 1..Len(es) |-> k], LAMBDA k : k \notin removed)
    IN  [n \in 1..Len(kept) |-> es[kept[n]]]

\* the utterances of the list that are no Choice record, in list order
PlainUtterances(es) == SelectSeq(es, LAMBDA e : ~e.is_choice)

\* the output of the first pass is in index order and its utterances other
\* than Choice records are the non-members of the input, unchanged and in
\* their input order
OrderedAndKept ==
    /\ InIndexOrder(combined)
    /\ PlainUtterances(combined) = NonMembers(entries)

\* C29 as stated: for every input list the output is in index order and
\* the non-members keep their relative order.
GroupOutputOrderedAnyInput == (pc = "grouped" /\ i = 1) => OrderedAndKept

\* C29: output order of group_related_choices.  For every input list in
\* non-decreasing order of index the returned list is in non-decreasing
\* order of index, and every utterance that is in no converted cluster is
\* in the output unchanged and in the same relative order as in the input,
\* also when the input holds no choice candidate.
GroupOutputOrdered ==
    (pc = "grouped" /\ i = 1 /\ InIndexOrder(entries)) => OrderedAndKept

\* an ordered list with a converted cluster between two other utterances
\* went through the first pass
ClusterBetweenKept ==
    /\ pc = "grouped"
    /\ i = 1
    /\ InIndexOrder(entries)
    /\ Len(entries) = 4
    /\ Len(combined) = 3
    /\ ~combined[1].is_choice
    /\ combined[2].is_choice
    /\ ~combined[3].is_choice


\* the options of the Choice records of the list, in list order
AllOptions(es) ==
    Concat([k \in 1..Len(es) |-> IF es[k].is_choice THEN es[k].choice_options ELSE <<>>])

\* the trimmed texts of a list of utterances
TrimmedTexts(es) == [k \in 1..Len(es) |-> Strip(es[k].text)]

\* C30: group_related_choices neither loses nor duplicates text.  After the
\* first pass every utterance of the output that is no Choice record is an
\* utterance of the input, and every trimmed text occurs in the input as
\* often as it occurs among the utterances of the output that are no Choice
\* record and the options of its Choice records taken together; the text of
\* a Choice record is its options joined.
GroupingConservesText ==
    (pc = "grouped" /\ i = 1)
    => /\ \A u \in DOMAIN combined :
              IF combined[u].is_choice
              THEN /\ combined[u].text = JoinChoices(combined[u].choice_options)
                   /\ combined[u].choice_count = Len(combined[u].choice_options)
              ELSE \E k \in DOMAIN entries : entries[k] = combined[u]
       /\ \A k \in DOMAIN entries :
              Occurrences(TrimmedTexts(entries), Strip(entries[k].text))
                  = Occurrences(TrimmedTexts(PlainUtterances(combined)),
                                Strip(entries[k].text))
                    + Occurrences(AllOptions(combined), Strip(entries[k].text))
       /\ \A t \in {AllOptions(combined)[k] : k \in DOMAIN AllOptions(combined)} :
              \E k \in DOMAIN entries : Strip(entries[k].text) = t

\* the first pass made two Choice records of two options each out of four
\* candidates
TwoClustersFormed ==
    /\ pc = "grouped"
    /\ i = 1
    /\ Len(entries) = 4
    /\ Len(combined) = 2
    /\ \A u \in DOMAIN combined : combined[u].is_choice /\ combined[u].choice_count = 2


(***************************************************************************)
(* Specification of the loops, one action per iteration                    *)
(*                                                                         *)
(* i is the cursor of the loop at hand: the byte offset of the two scans,  *)
(* the position in entries of the main loop of combine_dialogue_entries,   *)
(* the position in the candidate list of group_related_choices.  result    *)
(* holds the Choice records the grouping loop has made.                    *)
(***************************************************************************)
\* a retry one byte before the offset that failed
RetryBehind(p) == p - 1

\* pos += 1 after a failed validation
RetryFrom(p) == p + 1

\* the outcome of one iteration of a scan: the cursor after it, the entries
\* list after it, and whether the iteration left the loop with break
ScanResult(pos, acc, stop) == [pos |-> pos, acc |-> acc, stop |-> stop]

\* one iteration of the while loop of _parse_padded_format (lines 1023-1145)
PaddedIteration(bytes, p, acc) ==
    IF ~FourNulls(bytes, p) THEN ScanResult(RetryFrom(p), acc, FALSE)
    ELSE LET padding_offset == IF p + 8 <= Len(bytes) /\ FourNulls(bytes, p + 4) THEN 8 ELSE 4
             h == p + padding_offset
             entry_type == LE32(bytes, h)
             entry_index == LE32(bytes, h + 4)
             entry_size == IF entry_type = PlaceholderSizeType
                           THEN TextEnd(bytes, h + HeaderLen, h + HeaderLen, 0) - (h + HeaderLen)
                           ELSE LE32(bytes, h + 8)
             string_end == h + HeaderLen + entry_size
             e == RawEntry(entry_index, entry_type, EntryText(bytes, h + HeaderLen, string_end),
                           entry_size, p)
         IN  IF \/ ~CanUnpack(bytes, h, HeaderLen)
                \/ entry_type \notin PaddedTypes
                \/ entry_size < 1
                \/ entry_type # PlaceholderSizeType /\ entry_size > MaxEntrySize
                \/ entry_index > MaxEntryIndex
             THEN ScanResult(RetryFrom(p), acc, FALSE)
             ELSE IF string_end > Len(bytes) THEN ScanResult(p, acc, TRUE)
             ELSE ScanResult(PaddedRealign(bytes, string_end), WithEntry(acc, e), FALSE)

\* one iteration of the while loop of _parse_compact_format (lines 1165-1251)
CompactIteration(bytes, p, acc) ==
    LET entry_type == LE32(bytes, p)
        entry_index == LE32(bytes, p + 4)
        entry_size == IF entry_type = PlaceholderSizeType
                      THEN TextEnd(bytes, p + HeaderLen, p + HeaderLen, HeaderLen)
                           - (p + HeaderLen)
                      ELSE LE32(bytes, p + 8)
        string_end == p + HeaderLen + entry_size
        e == RawEntry(entry_index, entry_type, EntryText(bytes, p + HeaderLen, string_end),
                      entry_size, p)
    IN  IF \/ entry_type \notin CompactTypes
           \/ entry_index > MaxEntryIndex
           \/ entry_type = PlaceholderSizeType /\ entry_size < 1
           \/ /\ entry_type # PlaceholderSizeType
              /\ (entry_size < MinCompactSize \/ entry_size > MaxEntrySize)
        THEN ScanResult(RetryFrom(p), acc, FALSE)
        ELSE IF string_end > Len(bytes) THEN ScanResult(p, acc, TRUE)
        ELSE ScanResult(CompactSkip(bytes, string_end), WithEntry(acc, e), FALSE)

\* single entries between header and trailer, and the buffers with two or
\* three entries
LoopBuffers ==
    {FullHeader \o chunk \o Trailer : chunk \in ChunkPool}
    \cup BackToBackBuffers \cup {ConflictBuffer, LegacyOnlyBuffer, ReorderBuffer}

\* fragments of every branch of the main loop: a speaker, a name marker,
\* choice words, dialogue lines, bytecode, a type 0x07 fragment, narration,
\* an unknown tag, short Japanese answers
LoopFragments ==
    { <<2, Text.Pearl>>, <<3, Text.name1>>, <<1, Text.Yes>>, <<4, Text.Hello_open>>,
      <<4, Text.Hello>>, <<4, Text.bg01>>, <<7, Text.No>>, <<18, Text.Night>>,
      <<0, Text.Hello>>, <<2, Text.hai>>, <<2, Text.iie>> }

LoopInputs ==
    {[k \in 1..Len(s) |-> Fragment(s[k][1], s[k][2], k)] :
        s \in UNION {[1..m -> LoopFragments] : m \in 0..MaxRunLen}}

\* a run starts with a buffer to scan or with a list to assemble
InitLoops ==
    /\ \/ pc = "padded_scan" /\ data \in LoopBuffers /\ entries = <<>> /\ i = 0
       \/ pc = "assemble" /\ data = NoData /\ entries \in LoopInputs /\ i = 1
    /\ combined = <<>>
    /\ result = <<>>
    /\ format = ""
    /\ padded_entries = <<>>
    /\ compact_entries = <<>>
    /\ raised = FALSE

\* line 1023: one iteration of the padded scan; a break ends the scan
PaddedScanStep ==
    /\ pc = "padded_scan"
    /\ i < Len(data) - PaddedTail
    /\ LET it == PaddedIteration(data, i, padded_entries)
       IN  /\ padded_entries' = it.acc
           /\ IF it.stop THEN pc' = "compact_scan" /\ i' = 0
                         ELSE pc' = pc /\ i' = it.pos
    /\ UNCHANGED <<data, format, compact_entries, entries, combined, result, raised>>

\* the loop condition of line 1023 fails
PaddedScanEnd ==
    /\ pc = "padded_scan"
    /\ ~(i < Len(data) - PaddedTail)
    /\ pc' = "compact_scan"
    /\ i' = 0
    /\ UNCHANGED <<data, format, padded_entries, compact_entries, entries, combined,
                   result, raised>>

\* lines 1382-1399: the merge of the two lists, then the main loop starts
StartAssemble ==
    /\ entries' = MergeEntries(padded_entries, compact_entries)
    /\ pc' = "assemble"
    /\ i' = 1

\* line 1165: one iteration of the compact scan; a break ends the scan
CompactScanStep ==
    /\ pc = "compact_scan"
    /\ i + HeaderLen <= Len(data)
    /\ LET it == CompactIteration(data, i, compact_entries)
       IN  IF it.stop
           THEN /\ compact_entries' = it.acc
                /\ entries' = MergeEntries(padded_entries, it.acc)
                /\ pc' = "assemble"
                /\ i' = 1
           ELSE /\ compact_entries' = it.acc
                /\ pc' = pc
                /\ i' = it.pos
                /\ UNCHANGED entries
    /\ UNCHANGED <<data, format, padded_entries, combined, result, raised>>

\* the loop condition of line 1165 fails
CompactScanEnd ==
    /\ pc = "compact_scan"
    /\ ~(i + HeaderLen <= Len(data))
    /\ StartAssemble
    /\ UNCHANGED <<data, format, padded_entries, compact_entries, combined, result,
                   raised>>

\* lines 273-279: the main loop is over and the candidates are collected
GroupStart ==
    /\ pc = "assemble"
    /\ i > Len(entries)
    /\ pc' = "group"
    /\ i' = 1
    /\ result' = <<>>
    /\ UNCHANGED <<data, format, padded_entries, compact_entries, entries, combined,
                   raised>>

\* lines 284-326: one iteration of the outer loop over the candidates
GroupStep ==
    /\ pc = "group"
    /\ i <= Len(CandidatePositions(combined))
    /\ LET cp == CandidatePositions(combined)
           j == GroupEnd(combined, cp, i, i + 1)
           group == SubSeq(cp, i, j - 1)
       IN  /\ result' = IF IsConverted(group)
                        THEN Append(result, CombinedChoice(combined, group))
                        ELSE result
           /\ i' = IF j > i + 1 THEN j ELSE i + 1
    /\ UNCHANGED <<pc, data, format, padded_entries, compact_entries, entries, combined,
                   raised>>

\* lines 278-279 and 328-335: without candidates the list is returned; else
\* the marked utterances are removed, the Choice records added, the list
\* sorted
GroupEnded ==
    /\ pc = "group"
    /\ i > Len(CandidatePositions(combined))
    /\ result' = IF CandidatePositions(combined) = <<>> THEN combined
                 ELSE SortByIndex(NonMembers(combined) \o result)
    /\ pc' = "assembled"
    /\ UNCHANGED <<data, format, padded_entries, compact_entries, entries, i, combined,
                   raised>>

NextLoops ==
    \/ PaddedScanStep
    \/ PaddedScanEnd
    \/ CompactScanStep
    \/ CompactScanEnd
    \/ SpeakerBranch
    \/ NonSpeakerBranch
    \/ NarrationBranch
    \/ ChoiceWordBranch
    \/ Type07Branch
    \/ DialogueBranch
    \/ UnknownBranch
    \/ GroupStart
    \/ GroupStep
    \/ GroupEnded

SpecLoops == InitLoops /\ [][NextLoops]_vars

\* the loops taken step by step give what the functions give
LoopsAgree ==
    /\ (pc \in {"assemble", "group", "assembled"} /\ data # NoData)
       => /\ padded_entries = _parse_padded_format(data)
          /\ compact_entries = _parse_compact_format(data)
    /\ pc = "assembled" => result = combine_dialogue_entries(entries)


\* lines 682-699: the positions the lookback for a name marker reads, in
\* the order it reads them, from position j downwards
RECURSIVE NameLookbackVisits(_, _)
NameLookbackVisits(es, j) ==
    IF j < 1 THEN <<>>
    ELSE IF is_name_indicator(es[j].text) THEN <<j>> \o NameLookbackVisits(es, j - 1)
    ELSE IF es[j].type \in DialogueTypes THEN <<j>>
    ELSE <<j>> \o NameLookbackVisits(es, j - 1)

\* lines 596-614: the positions the lookback for the speaker of a type 0x07
\* fragment reads
RECURSIVE SpeakerLookbackVisits(_, _)
SpeakerLookbackVisits(es, j) ==
    IF j < 1 THEN <<>>
    ELSE IF es[j].type \in {2, 3} \cup Type07StopTypes THEN <<j>>
    ELSE <<j>> \o SpeakerLookbackVisits(es, j - 1)

\* the positions the inner lookback of the step at hand reads: none outside
\* the dialogue and type 0x07 branches
LookbackVisits ==
    IF ~(pc = "assemble" /\ i <= Len(entries)) THEN <<>>
    ELSE IF IsDialogueEntry(entries[i]) THEN NameLookbackVisits(entries, i - 1)
    ELSE IF IsType07Entry(entries[i]) /\ ~is_bytecode(entries[i].text)
         THEN SpeakerLookbackVisits(entries, i - 1)
    ELSE <<>>

\* an iteration that stays in its loop leaves the cursor further on
OuterCursorAdvances ==
    (pc' = pc /\ pc \in {"padded_scan", "compact_scan", "assemble", "group"}) => i' > i

\* C28 as stated: every iteration advances the cursor of its loop and no
\* loop, the inner lookbacks included, moves a cursor backwards.
NoCursorMovesBackwards ==
    [][/\ OuterCursorAdvances
       /\ \A n \in 1..(Len(LookbackVisits) - 1) :
              LookbackVisits[n + 1] >= LookbackVisits[n]]_vars

\* the end of what the loop at hand scans: the buffer for the two scans,
\* the list entries for the main loop, the candidates among the assembled
\* utterances (complete when the grouping starts) for the grouping
LoopEnd ==
    IF pc = "padded_scan" THEN Len(data) - PaddedTail
    ELSE IF pc = "compact_scan" THEN Len(data) - HeaderLen + 1
    ELSE IF pc = "assemble" THEN Len(entries) + 1
    ELSE Len(CandidatePositions(combined)) + 1

\* C28: every scan terminates.  Each iteration of the padded scan, of the
\* compact scan, of the main loop of combine_dialogue_entries and of the
\* outer loop of group_related_choices either leaves its loop or runs with
\* its cursor before the end of what it scans, leaves that end where it is
\* and moves its cursor strictly forward, so a loop makes no more
\* iterations than there are bytes or fragments; the two lookbacks of combine_dialogue_entries read positions
\* before the cursor, each one lower than the one before and none below
\* the start of the list.
EveryLoopTerminates ==
    [][/\ OuterCursorAdvances
       /\ pc' = pc => (i < LoopEnd /\ UNCHANGED <<data, entries>>)
       /\ pc = "group" => UNCHANGED combined
       /\ \A n \in DOMAIN LookbackVisits :
              /\ LookbackVisits[n] = i - n
              /\ LookbackVisits[n] >= 1]_vars

\* a buffer went through the two scans, the main loop and the grouping, and
\* a list whose lookback read two positions went through the main loop
ScannedAndAssembled ==
    /\ pc = "assembled"
    /\ \/ data # NoData /\ Len(padded_entries) >= 1 /\ Len(compact_entries) >= 1
          /\ result # <<>>
       \/ /\ data = NoData
          /\ Len(entries) = 3
          /\ IsDialogueEntry(entries[3])
          /\ Len(NameLookbackVisits(entries, 2)) = 2

====
